---- MODULE Spec2Model ----
(***************************************************************************)
(* Model of the tachograph download parser (ddd_parser.py, ddd_binary.py,  *)
(* ddd_structs.py): header classification, the VU stream walker with its   *)
(* Gen1/Gen2 structural validators, and the record decoders run by         *)
(* parse_summary.  Offsets are 0-based as in the source; a byte string is  *)
(* a sequence of integers in 0..255.                                       *)
(***************************************************************************)
EXTENDS Integers, Sequences, FiniteSets, TLC

\* ------------------------------------------------------------------------
\* Absent values.  Python None is modelled by a value of the field's own
\* sort: -1 for an optional byte, "None" for an optional string, the empty
\* tuple for an optional tuple/record.
\* ------------------------------------------------------------------------
NoByte == 0 - 1
NoneStr == "None"
NoneVal == << >>

\* F(x).  The argument is bound by a set constructor, so that it is
\* evaluated once however often F uses it.
Apply(F(_), x) == CHOOSE r \in {F(v) : v \in {x}} : TRUE

\* ------------------------------------------------------------------------
\* Program constants (ddd_parser.py)
\* ------------------------------------------------------------------------
HEADER_READ_LEN == 32
TRANSFER_DATA_POSITIVE_RESPONSE_SID == 118

DRIVER_CARD_SIGNATURES == { <<0, 2, 0, 0, 25, 0>> }
VU_SIGNATURES == { <<118, 33, 4, 0, 205, 0>> }

TREPS_GEN1 == {1, 2, 3, 4, 5}
TREPS_GEN2_V1 == {33, 34, 35, 36, 37}
TREPS_GEN2_V2 == {0, 36, 49, 50, 51, 53}

TREP_DATA_TYPES ==
    [t \in {0, 1, 2, 3, 4, 5, 33, 34, 35, 36, 37, 49, 50, 51, 53} |->
        CASE t = 0 -> "Download interface version"
          [] t \in {1, 33, 49} -> "Overview"
          [] t \in {2, 34, 50} -> "Activities"
          [] t \in {3, 35, 51} -> "Events and faults"
          [] t \in {4, 36} -> "Detailed speed"
          [] t \in {5, 37, 53} -> "Technical data"]

VALID_TREPS == DOMAIN TREP_DATA_TYPES

TECH_TREPS == {5, 37, 53}

\* _PART_DEFS: the part names in output order, with their base note.
PART_NAMES ==
    << "Overview", "Activities", "Events and faults", "Detailed speed",
       "Technical data", "Company locks", "Overspeeding", "Faults" >>

PartNameSet == { PART_NAMES[i] : i \in 1..Len(PART_NAMES) }

PartBaseNote(name) ==
    CASE name = "Company locks" -> << <<"Contained in Technical data">> >>
      [] name \in {"Overspeeding", "Faults"} -> << <<"Contained in Events and faults">> >>
      [] OTHER -> << >>

\* _PART_STATUS_PROXIES.get(name) or name
PartStatName(name) ==
    CASE name = "Company locks" -> "Technical data"
      [] name \in {"Overspeeding", "Faults"} -> "Events and faults"
      [] OTHER -> name

\* ------------------------------------------------------------------------
\* Byte helpers (ddd_binary.py).  At(d, o) is d[o] of the source.
\* ------------------------------------------------------------------------
At(d, o) == d[o + 1]

\* d[a:b] with Python's clamping of the slice bounds.
Slice(d, a, b) ==
    LET hi == IF b > Len(d) THEN Len(d) ELSE b
    IN  IF a >= hi THEN << >> ELSE SubSeq(d, a + 1, hi)

StartsWith(d, p) == Len(d) >= Len(p) /\ SubSeq(d, 1, Len(p)) = p

U16BE(d, o) == At(d, o) * 256 + At(d, o + 1)

\* record_size * record_count.  Python integers are unbounded and the source
\* only compares the product with a byte count that is at most cap, so any
\* product above cap is represented by cap + 1.
RecordTotal(record_size, record_count, cap) ==
    IF record_size = 0 \/ record_count = 0 THEN 0
    ELSE IF record_size > cap \/ record_count > cap THEN cap + 1
    ELSE record_size * record_count

\* ------------------------------------------------------------------------
\* Header classifier
\* ------------------------------------------------------------------------
\* DetectTrepGeneration without the test for 0x24 in the Gen2 v1 branch
DetectTrepGenerationNoAmbiguity(trep) ==
    IF trep \in TREPS_GEN1 THEN "gen1"
    ELSE IF trep \in TREPS_GEN2_V1 THEN "gen2_v1"
    ELSE IF trep \in TREPS_GEN2_V2 THEN "gen2_v2"
    ELSE NoneStr

DetectTrepGeneration(trep) ==
    IF trep \in TREPS_GEN1 THEN "gen1"
    ELSE IF trep \in TREPS_GEN2_V1
         THEN (IF trep = 36 THEN "gen2_v1_or_v2" ELSE "gen2_v1")
    ELSE IF trep \in TREPS_GEN2_V2
         THEN (IF trep = 36 THEN "gen2_v1_or_v2" ELSE "gen2_v2")
    ELSE NoneStr

ParseDownloadInterfaceVersion(d) ==
    IF Len(d) < 2 THEN <<"unknown">>
    ELSE IF d[1] = 1 /\ d[2] = 1 THEN <<"gen2_v2 (0x01 0x01)">>
    ELSE IF d[1] = 1 THEN <<"gen2 (0x01 %02X)", d[2]>>
    ELSE <<"0x%02X 0x%02X", d[1], d[2]>>

DetectFileType(hdr, service_id, trep, trep_generation) ==
    IF service_id = TRANSFER_DATA_POSITIVE_RESPONSE_SID /\ trep # NoByte
    THEN (IF trep_generation # NoneStr
          THEN <<"vehicle_unit", trep_generation>>
          ELSE <<"vehicle_unit", "unknown">>)
    ELSE IF \E s \in DRIVER_CARD_SIGNATURES : StartsWith(hdr, s)
         THEN <<"driver_card", "unknown">>
    ELSE IF \E s \in VU_SIGNATURES : StartsWith(hdr, s)
         THEN <<"vehicle_unit", "unknown">>
    ELSE <<"unknown", "unknown">>

\* ValidateHeader without the length test for TREP 0x00
ValidateHeaderNoVersionCheck(hdr, service_id, trep, trep_generation, detected_type) ==
    IF hdr = << >> THEN <<FALSE, <<"Header (empty)">> >>
    ELSE IF service_id = TRANSFER_DATA_POSITIVE_RESPONSE_SID
    THEN (IF trep = NoByte THEN <<FALSE, <<"Header (missing TREP#2)">> >>
          ELSE IF trep_generation = NoneStr
               THEN <<FALSE, <<"Header (unknown TREP#2 0x%02X)", trep>> >>
          ELSE <<TRUE, NoneVal>>)
    ELSE IF detected_type \in {"driver_card", "vehicle_unit"}
         THEN <<TRUE, NoneVal>>
    ELSE <<FALSE, <<"Header (unknown signature)">> >>

ValidateHeader(hdr, service_id, trep, trep_generation, detected_type) ==
    IF hdr = << >> THEN <<FALSE, <<"Header (empty)">> >>
    ELSE IF service_id = TRANSFER_DATA_POSITIVE_RESPONSE_SID
    THEN (IF trep = NoByte THEN <<FALSE, <<"Header (missing TREP#2)">> >>
          ELSE IF trep_generation = NoneStr
               THEN <<FALSE, <<"Header (unknown TREP#2 0x%02X)", trep>> >>
          ELSE IF trep = 0 /\ Len(hdr) < 4
               THEN <<FALSE, <<"Header (download interface version missing)">> >>
          ELSE <<TRUE, NoneVal>>)
    ELSE IF detected_type \in {"driver_card", "vehicle_unit"}
         THEN <<TRUE, NoneVal>>
    ELSE <<FALSE, <<"Header (unknown signature)">> >>

\* The header fields read before classification (lines 296-311).
HeaderServiceId(hdr) ==
    IF Len(hdr) >= 1 /\ hdr[1] = TRANSFER_DATA_POSITIVE_RESPONSE_SID
    THEN hdr[1] ELSE NoByte

HeaderTrep(hdr) ==
    IF HeaderServiceId(hdr) # NoByte /\ Len(hdr) >= 2 THEN hdr[2] ELSE NoByte

\* _parse_header_bytes for a non-empty header (the empty header raises
\* ValueError before any field is computed; see ParseHeader).
ParseHeaderBytes(hdr, file_size) ==
    LET service_id == HeaderServiceId(hdr)
        trep == HeaderTrep(hdr)
        recognised == service_id = TRANSFER_DATA_POSITIVE_RESPONSE_SID /\ trep # NoByte
        trep_generation == IF recognised THEN DetectTrepGeneration(trep) ELSE NoneStr
        trep_data_type ==
            IF recognised /\ trep \in VALID_TREPS THEN TREP_DATA_TYPES[trep] ELSE NoneStr
        div == IF recognised /\ trep = 0 /\ Len(hdr) >= 4
               THEN ParseDownloadInterfaceVersion(Slice(hdr, 2, 4)) ELSE NoneVal
        ft == DetectFileType(hdr, service_id, trep, trep_generation)
        vh == ValidateHeader(hdr, service_id, trep, trep_generation, ft[1])
    IN  [ file_size |-> file_size,
          detected_type |-> ft[1],
          detected_generation |-> ft[2],
          is_valid |-> vh[1],
          invalid_reason |-> vh[2],
          signature |-> Slice(hdr, 0, 6),
          header_length |-> Len(hdr),
          service_id |-> service_id,
          trep |-> trep,
          trep_generation |-> trep_generation,
          trep_data_type |-> trep_data_type,
          download_interface_version |-> div ]

\* ------------------------------------------------------------------------
\* Gen2 record-array walker and structural validators
\* ------------------------------------------------------------------------
\* The Overview table reduced to the records of an empty overview
GEN2_OVERVIEW_SEQUENCE_SHORT == << {10}, {8} >>

GEN2_OVERVIEW_SEQUENCE == << {4}, {15}, {10}, {11}, {3}, {19}, {2}, {20}, {16}, {17}, {8} >>
GEN2_ACTIVITIES_SEQUENCE == << {6}, {5}, {13}, {1}, {28}, {22}, {9}, {8} >>
GEN2_EVENTS_SEQUENCE == << {24}, {21}, {26}, {27}, {30}, {8} >>
GEN2_SPEED_SEQUENCE == << {23}, {8} >>
GEN2_TECH_SEQUENCE == << {25}, {32}, {33}, {12}, {14}, {23}, {31}, {8} >>

GEN2_TREP_SEQUENCES ==
    [t \in {33, 34, 35, 36, 37, 49, 50, 51, 53} |->
        CASE t \in {33, 49} -> GEN2_OVERVIEW_SEQUENCE
          [] t \in {34, 50} -> GEN2_ACTIVITIES_SEQUENCE
          [] t \in {35, 51} -> GEN2_EVENTS_SEQUENCE
          [] t = 36 -> GEN2_SPEED_SEQUENCE
          [] t \in {37, 53} -> GEN2_TECH_SEQUENCE]

\* The sequence of allowed record-type sets; << >> stands for None.
GetGen2Sequence(trep, generation) ==
    IF trep \notin DOMAIN GEN2_TREP_SEQUENCES THEN << >>
    ELSE IF generation = "gen2_v2" /\ trep \in {49}
         THEN [GEN2_TREP_SEQUENCES[trep] EXCEPT ![4] = {11, 18}]
    ELSE GEN2_TREP_SEQUENCES[trep]

\* ReadGen2Record without the test that the payload fits: the reader is left
\* at the end of the data or after the payload, whichever comes first
ReadGen2RecordUnchecked(d, off) ==
    IF Len(d) - off < 5
    THEN [record_type |-> 0, record_size |-> 0, record_count |-> 0,
          ok |-> FALSE, off |-> off]
    ELSE LET total == RecordTotal(U16BE(d, off + 1), U16BE(d, off + 3), Len(d))
         IN  [record_type |-> At(d, off), record_size |-> U16BE(d, off + 1),
              record_count |-> U16BE(d, off + 3), ok |-> TRUE,
              off |-> IF off + 5 + total > Len(d) THEN Len(d) ELSE off + 5 + total]

\* ReadGen2Record skipping recordSize bytes whatever the record count
ReadGen2RecordOneRecord(d, off) ==
    IF Len(d) - off < 5
    THEN [record_type |-> 0, record_size |-> 0, record_count |-> 0,
          ok |-> FALSE, off |-> off]
    ELSE IF Len(d) - (off + 5) < U16BE(d, off + 1)
         THEN [record_type |-> At(d, off), record_size |-> U16BE(d, off + 1),
               record_count |-> U16BE(d, off + 3), ok |-> FALSE, off |-> off + 5]
         ELSE [record_type |-> At(d, off), record_size |-> U16BE(d, off + 1),
               record_count |-> U16BE(d, off + 3), ok |-> TRUE,
               off |-> off + 5 + U16BE(d, off + 1)]

\* _read_gen2_record: the triple header, then recordSize*recordCount bytes
\* skipped.  off is the reader's offset after the call.
ReadGen2Record(d, off) ==
    IF Len(d) - off < 5
    THEN [record_type |-> 0, record_size |-> 0, record_count |-> 0,
          ok |-> FALSE, off |-> off]
    ELSE LET record_type == At(d, off)
             record_size == U16BE(d, off + 1)
             record_count == U16BE(d, off + 3)
             total == RecordTotal(record_size, record_count, Len(d))
         IN  IF Len(d) - (off + 5) < total
             THEN [record_type |-> record_type, record_size |-> record_size,
                   record_count |-> record_count, ok |-> FALSE, off |-> off + 5]
             ELSE [record_type |-> record_type, record_size |-> record_size,
                   record_count |-> record_count, ok |-> TRUE,
                   off |-> off + 5 + total]

StructureOk == <<"Structure OK (signature not verified)">>

\* for allowed in sequence[i:]: read a triple, check it (lines 699-704, 717-722).
\* On success the note is << >> and the caller supplies the final one.
RECURSIVE Gen2ReadSequence(_, _, _, _)
Gen2ReadSequence(d, off, sequence, i) ==
    IF i > Len(sequence) THEN [ok |-> TRUE, note |-> << >>, off |-> off]
    ELSE Apply(LAMBDA r :
             IF ~r.ok
             THEN [ok |-> FALSE, note |-> <<"Truncated record">>, off |-> r.off]
             ELSE IF r.record_type \notin sequence[i]
             THEN [ok |-> FALSE, note |-> <<"Unexpected record 0x%02X", r.record_type>>,
                   off |-> r.off]
             ELSE Gen2ReadSequence(d, r.off, sequence, i + 1),
           ReadGen2Record(d, off))

\* while reader.remaining() >= 5: ... until a type-0x08 triple (lines 705-715).
RECURSIVE Gen2ReadExtras(_, _)
Gen2ReadExtras(d, off) ==
    IF Len(d) - off >= 5
    THEN Apply(LAMBDA r :
             IF ~r.ok
             THEN [ok |-> FALSE, note |-> <<"Truncated record">>, off |-> r.off]
             ELSE IF r.record_type = 8
             THEN [ok |-> TRUE, note |-> StructureOk, off |-> r.off]
             ELSE Gen2ReadExtras(d, r.off),
           ReadGen2Record(d, off))
    ELSE [ok |-> FALSE, note |-> <<"Missing signature record">>, off |-> off]

\* _validate_gen2_part with allow_extras always False: TREP 0x32 and 0x35 are
\* held to their fixed sequence like every other TREP
ValidateGen2PartNoExtras(d, off, trep, generation) ==
    LET sequence == GetGen2Sequence(trep, generation)
    IN  IF sequence = << >>
        THEN [ok |-> FALSE, note |-> <<"Unsupported Gen2 TREP 0x%02X", trep>>, off |-> off]
        ELSE Apply(LAMBDA res : IF ~res.ok THEN res ELSE [res EXCEPT !.note = StructureOk],
                   Gen2ReadSequence(d, off, sequence, 1))

ValidateGen2Part(d, off, trep, generation) ==
    LET sequence == GetGen2Sequence(trep, generation)
        allow_extras == generation = "gen2_v2" /\ trep \in {50, 53}
    IN  IF sequence = << >>
        THEN [ok |-> FALSE, note |-> <<"Unsupported Gen2 TREP 0x%02X", trep>>, off |-> off]
        ELSE IF allow_extras
        THEN Apply(LAMBDA pro : IF ~pro.ok THEN pro ELSE Gen2ReadExtras(d, pro.off),
                   Gen2ReadSequence(d, off, SubSeq(sequence, 1, Len(sequence) - 1), 1))
        ELSE Apply(LAMBDA res : IF ~res.ok THEN res ELSE [res EXCEPT !.note = StructureOk],
                   Gen2ReadSequence(d, off, sequence, 1))

\* ------------------------------------------------------------------------
\* Gen1 structural validator.  Each TREP's layout is the list of its reads,
\* in source order: <<"skip", n, note>> is _skip_exact(reader, n), and
\* <<"count", w, size, missing, truncated>> is the w-byte big-endian counter
\* followed by _skip_exact(reader, counter * size).
\* ------------------------------------------------------------------------
Gen1Layout(trep) ==
    CASE trep = 1 ->
           << <<"skip", 194, "Overview certificates truncated">>,
              <<"skip", 194, "Overview certificates truncated">>,
              <<"skip", 103, "Overview header truncated">>,
              <<"count", 1, 98, "Overview locks count missing", "Overview locks truncated">>,
              <<"count", 1, 31, "Overview controls count missing", "Overview controls truncated">>,
              <<"skip", 128, "Overview signature truncated">> >>
      [] trep = 2 ->
           << <<"skip", 7, "Activities header truncated">>,
              <<"count", 2, 129, "Activities card IW count missing", "Activities card IW records truncated">>,
              <<"count", 2, 2, "Activities change count missing", "Activities change records truncated">>,
              <<"count", 1, 28, "Activities place count missing", "Activities place records truncated">>,
              <<"count", 2, 5, "Activities condition count missing", "Activities condition records truncated">>,
              <<"skip", 128, "Activities signature truncated">> >>
      [] trep = 3 ->
           << <<"count", 1, 82, "Events faults count missing", "Fault records truncated">>,
              <<"count", 1, 83, "Events count missing", "Event records truncated">>,
              <<"skip", 9, "Overspeed control truncated">>,
              <<"count", 1, 31, "Overspeed events count missing", "Overspeed events truncated">>,
              <<"count", 1, 98, "Time adjustment count missing", "Time adjustment records truncated">>,
              <<"skip", 128, "Events signature truncated">> >>
      [] trep = 4 ->
           << <<"count", 2, 64, "Speed block count missing", "Speed blocks truncated">>,
              <<"skip", 128, "Speed signature truncated">> >>
      [] trep = 5 ->
           << <<"skip", 88, "Technical data header truncated">>,
              <<"skip", 8, "Technical data block truncated">>,
              <<"skip", 12, "Technical data reserved truncated">>,
              <<"skip", 24, "Technical data block truncated">>,
              <<"skip", 4, "Technical data reserved truncated">>,
              <<"count", 1, 167, "Calibration count missing", "Calibration records truncated">>,
              <<"skip", 128, "Technical data signature truncated">> >>
      [] OTHER -> << >>

RECURSIVE Gen1Run(_, _, _, _)
Gen1Run(d, off, layout, i) ==
    IF i > Len(layout) THEN [ok |-> TRUE, note |-> StructureOk, off |-> off]
    ELSE LET op == layout[i]
         IN  IF op[1] = "skip"
             THEN (IF Len(d) - off < op[2]
                   THEN [ok |-> FALSE, note |-> <<op[3]>>, off |-> off]
                   ELSE Gen1Run(d, off + op[2], layout, i + 1))
             ELSE IF Len(d) - off < op[2]
                  THEN [ok |-> FALSE, note |-> <<op[4]>>, off |-> off]
                  ELSE Apply(LAMBDA after :
                           LET n == IF op[2] = 1 THEN At(d, off) ELSE U16BE(d, off)
                           IN  IF Len(d) - after < n * op[3]
                               THEN [ok |-> FALSE, note |-> <<op[5]>>, off |-> after]
                               ELSE Apply(LAMBDA next : Gen1Run(d, next, layout, i + 1),
                                          after + n * op[3]),
                         off + op[2])

ValidateGen1Part(d, off, trep) ==
    IF Gen1Layout(trep) = << >>
    THEN [ok |-> FALSE, note |-> <<"Unsupported Gen1 TREP 0x%02X", trep>>, off |-> off]
    ELSE Gen1Run(d, off, Gen1Layout(trep), 1)

ValidateVuPart(d, off, trep) ==
    IF trep = 0
    THEN (IF Len(d) - off < 2
          THEN [ok |-> FALSE, note |-> <<"Download interface version truncated">>, off |-> off]
          ELSE [ok |-> TRUE, note |-> <<"Download interface version (not validated)">>,
                off |-> off + 2])
    ELSE LET generation == DetectTrepGeneration(trep)
         IN  IF generation = "gen1" THEN ValidateGen1Part(d, off, trep)
             ELSE IF generation \in {"gen2_v1", "gen2_v2", "gen2_v1_or_v2"}
             THEN ValidateGen2Part(d, off, trep, generation)
             ELSE [ok |-> FALSE, note |-> <<"Unknown TREP 0x%02X", trep>>, off |-> off]

\* ------------------------------------------------------------------------
\* VU stream walker: per-part statistics, resynchronisation, part statuses
\* ------------------------------------------------------------------------
EmptyStat == [count |-> 0, invalid |-> 0, notes |-> << >>]

InitialStats == [name \in PartNameSet |-> EmptyStat]

Contains(seq, x) == \E i \in 1..Len(seq) : seq[i] = x

\* _append_note(stats, part_name, note, invalid)
AppendNote(st, part_name, note, invalid) ==
    IF part_name \notin DOMAIN st THEN st
    ELSE LET stat == st[part_name]
             c == IF stat.count = 0 THEN 1 ELSE stat.count
             inv == IF invalid THEN stat.invalid + 1 ELSE stat.invalid
         IN  [st EXCEPT ![part_name] =
                 [count |-> c, invalid |-> inv, notes |-> Append(stat.notes, note)]]

\* Lines 454-462: the dispatched segment is counted against its part.
CountSegment(st, part_name, ok, note) ==
    IF part_name \notin DOMAIN st THEN st
    ELSE LET stat == st[part_name]
         IN  IF ok
             THEN [st EXCEPT ![part_name] =
                     [count |-> stat.count + 1, invalid |-> stat.invalid,
                      notes |-> IF note # << >> /\ ~Contains(stat.notes, note)
                                THEN Append(stat.notes, note) ELSE stat.notes]]
             ELSE [st EXCEPT ![part_name] =
                     [count |-> stat.count + 1, invalid |-> stat.invalid + 1,
                      notes |-> Append(stat.notes,
                                       IF note # << >> THEN note
                                       ELSE <<"Invalid structure">>)]]

\* ResyncToNextPart scanning from the start of the data instead of from the
\* reader's position
ResyncScan(d, pos) ==
    Apply(LAMBDA hits :
              IF hits = {} THEN 0 - 1
              ELSE CHOOSE p \in hits : \A q \in hits : p <= q,
          {p \in pos..(Len(d) - 2) :
              At(d, p) = TRANSFER_DATA_POSITIVE_RESPONSE_SID
              /\ At(d, p + 1) \in VALID_TREPS})

ResyncFromStart(d, pos) == ResyncScan(d, 0)

\* ResyncToNextPart resuming at the reader's position without scanning
ResyncWithoutScan(d, pos) == IF pos + 1 < Len(d) THEN pos ELSE 0 - 1

\* _resync_to_next_part: the first offset >= pos holding 0x76 and a known
\* TREP, or -1 where the source returns False.
ResyncToNextPart(d, pos) ==
    Apply(LAMBDA hits :
              IF hits = {} THEN 0 - 1
              ELSE CHOOSE p \in hits : \A q \in hits : p <= q,
          {p \in pos..(Len(d) - 2) :
              At(d, p) = TRANSFER_DATA_POSITIVE_RESPONSE_SID
              /\ At(d, p + 1) \in VALID_TREPS})

\* ResolvePartStatus tolerating one invalid segment
ResolvePartStatusLenient(count, invalid) ==
    IF count = 0 THEN "missing"
    ELSE IF invalid > 1 THEN "invalid"
    ELSE "valid"

ResolvePartStatus(count, invalid) ==
    IF count = 0 THEN "missing"
    ELSE IF invalid > 0 THEN "invalid"
    ELSE "valid"

\* _build_part_note: the notes that the source joins with "; "; << >> is None.
BuildPartNote(stat, base_note) ==
    LET head == IF stat.count > 0
                THEN (IF stat.invalid > 0
                      THEN << <<"Segments valid: %d/%d", stat.count - stat.invalid, stat.count>> >>
                      ELSE IF stat.count > 1
                      THEN << <<"Segments: %d", stat.count>> >>
                      ELSE << >>)
                ELSE << >>
    IN  head \o stat.notes \o base_note

\* Lines 466-478.
BuildParts(st) ==
    [i \in 1..Len(PART_NAMES) |->
        LET name == PART_NAMES[i]
            stat_name == PartStatName(name)
        IN  IF stat_name \notin DOMAIN st
            THEN [name |-> name, status |-> "missing", note |-> PartBaseNote(name)]
            ELSE [name |-> name,
                  status |-> ResolvePartStatus(st[stat_name].count, st[stat_name].invalid),
                  note |-> BuildPartNote(st[stat_name], PartBaseNote(name))]]

\* NotApplicableParts reporting the parts as missing
NotApplicablePartsAsMissing(detected_type) ==
    [i \in 1..Len(PART_NAMES) |->
        [name |-> PART_NAMES[i], status |-> "missing",
         note |-> << <<"Unknown file type">> >>]]

\* Lines 413-422.
NotApplicableParts(detected_type) ==
    [i \in 1..Len(PART_NAMES) |->
        [name |-> PART_NAMES[i], status |-> "not_applicable",
         note |-> IF detected_type = "driver_card"
                  THEN << <<"Driver card file">> >>
                  ELSE << <<"Unknown file type">> >>]]

\* _GEN2_PART_LABELS.get(_TREP_DATA_TYPES.get(trep), ...); "None" for no label.
PartNameOfTrep(trep) ==
    IF trep \in VALID_TREPS THEN TREP_DATA_TYPES[trep] ELSE NoneStr

\* WalkDispatch without the test for the byte that follows the segment
WalkDispatchTolerant(d, st, trep, v) ==
    LET st1 == CountSegment(st, PartNameOfTrep(trep), v.ok, v.note)
        r == IF v.ok THEN v.off ELSE ResyncToNextPart(d, v.off)
    IN  IF r < 0
        THEN [stats |-> st1, off |-> v.off, stop |-> TRUE, trep |-> trep,
              structure_ok |-> v.ok, ok |-> v.ok, end |-> v.off]
        ELSE [stats |-> st1, off |-> r, stop |-> FALSE, trep |-> trep,
              structure_ok |-> v.ok, ok |-> v.ok, end |-> v.off]

\* Lines 447-464: the segment with TREP trep has been validated with outcome
\* v; it is counted and, unless it is ok, the reader resynchronises.
WalkDispatch(d, st, trep, v) ==
    LET unexpected == v.ok /\ Len(d) - v.off > 0
                      /\ At(d, v.off) # TRANSFER_DATA_POSITIVE_RESPONSE_SID
        ok == v.ok /\ ~unexpected
        note == IF unexpected THEN <<"Unexpected bytes after part">> ELSE v.note
        st1 == CountSegment(st, PartNameOfTrep(trep), ok, note)
        r == IF ok THEN v.off ELSE ResyncToNextPart(d, v.off)
    IN  IF r < 0
        THEN [stats |-> st1, off |-> v.off, stop |-> TRUE, trep |-> trep,
              structure_ok |-> v.ok, ok |-> ok, end |-> v.off]
        ELSE [stats |-> st1, off |-> r, stop |-> FALSE, trep |-> trep,
              structure_ok |-> v.ok, ok |-> ok, end |-> v.off]

\* One iteration of the while loop of _validate_parts (lines 430-464), for a
\* reader at offset off with bytes remaining.  stop is TRUE where the source
\* breaks out of the loop; trep is NoByte where no segment was dispatched;
\* structure_ok and ok are the validator's verdict and the final one; end is
\* the reader's offset when the validator returned.
WalkIteration(d, off, st) ==
    IF Len(d) - off < 2
    THEN [stats |-> AppendNote(st, "Overview", <<"Trailing bytes after last part">>, FALSE),
          off |-> off, stop |-> TRUE, trep |-> NoByte, structure_ok |-> FALSE, ok |-> FALSE,
          end |-> off]
    ELSE IF At(d, off) # TRANSFER_DATA_POSITIVE_RESPONSE_SID
    THEN LET st1 == AppendNote(st, "Overview", <<"Missing SID at offset %d", off>>, TRUE)
             r == ResyncToNextPart(d, off + 1)
         IN  IF r < 0
             THEN [stats |-> st1, off |-> off + 1, stop |-> TRUE, trep |-> NoByte,
                   structure_ok |-> FALSE, ok |-> FALSE, end |-> off + 1]
             ELSE [stats |-> st1, off |-> r, stop |-> FALSE, trep |-> NoByte,
                   structure_ok |-> FALSE, ok |-> FALSE, end |-> off + 1]
    ELSE Apply(LAMBDA v : WalkDispatch(d, st, At(d, off + 1), v),
               ValidateVuPart(d, off + 2, At(d, off + 1)))

\* ------------------------------------------------------------------------
\* Text helpers.  A decoded Latin-1 string is kept as its sequence of code
\* points, which for Latin-1 are the byte values.
\* ------------------------------------------------------------------------
\* str.isspace() over Latin-1
WhitespaceBytes == {9, 10, 11, 12, 13, 28, 29, 30, 31, 32, 133, 160}

\* str.isalnum() over Latin-1
AlnumBytes ==
    (48..57) \cup (65..90) \cup (97..122) \cup {170, 178, 179, 181, 185, 186}
    \cup (188..190) \cup (192..214) \cup (216..246) \cup (248..255)

\* str.isprintable() over Latin-1
PrintableBytes == (32..126) \cup (161..172) \cup (174..255)

\* The positions of b holding a byte that is not dropped
Kept(b, drop) == {i \in 1..Len(b) : b[i] \notin drop}

\* bytes.rstrip / str.rstrip: b up to its last kept position
RStrip(b, drop) ==
    IF Kept(b, drop) = {} THEN << >>
    ELSE SubSeq(b, 1, CHOOSE i \in Kept(b, drop) : \A j \in Kept(b, drop) : j <= i)

\* str.lstrip: b from its first kept position
LStrip(b, drop) ==
    IF Kept(b, drop) = {} THEN << >>
    ELSE SubSeq(b, CHOOSE i \in Kept(b, drop) : \A j \in Kept(b, drop) : i <= j, Len(b))

\* str.strip()
Strip(b) == LStrip(RStrip(b, WhitespaceBytes), WhitespaceBytes)

\* ByteReader.read_fixed_str applied to the bytes read
FixedStr(b) == Strip(RStrip(b, {0}))

CountIn(b, set) == Cardinality({i \in 1..Len(b) : b[i] \in set})

\* ------------------------------------------------------------------------
\* Segment map used by the record decoders
\* ------------------------------------------------------------------------
\* for index in range(len(data) - 1), from index on: the offsets holding the
\* SID and a known TREP, in increasing order
IterTrepOffsetsFrom(d, index) ==
    Apply(LAMBDA hits :
              [k \in 1..Cardinality(hits) |->
                  Apply(LAMBDA i : <<i, At(d, i + 1)>>,
                        CHOOSE i \in hits : Cardinality({j \in hits : j < i}) = k - 1)],
          {i \in index..(Len(d) - 2) :
              At(d, i) = TRANSFER_DATA_POSITIVE_RESPONSE_SID
              /\ At(d, i + 1) \in VALID_TREPS})

\* _iter_trep_offsets: (offset, trep) pairs in file order
IterTrepOffsets(d) == IterTrepOffsetsFrom(d, 0)

\* _slice_segment; idx is 1-based here
SliceSegment(d, offsets, idx) ==
    Slice(d, offsets[idx][1],
          IF idx + 1 <= Len(offsets) THEN offsets[idx + 1][1] ELSE Len(d))

\* The triple at offset off of a segment as the decoders read it (e.g. lines
\* 1044-1051): fits is FALSE where the loop breaks on a short payload.
DecoderTriple(seg, off) ==
    LET record_size == U16BE(seg, off + 1)
        record_count == U16BE(seg, off + 3)
        total == RecordTotal(record_size, record_count, Len(seg))
    IN  [record_type |-> At(seg, off), record_size |-> record_size,
         record_count |-> record_count,
         fits |-> Len(seg) - (off + 5) >= total,
         record_data |-> Slice(seg, off + 5, off + 5 + total),
         next |-> off + 5 + total]

\* The consecutive n-byte pieces of b, count of them
Pieces(b, n, count) == [i \in 1..count |-> Slice(b, (i - 1) * n, i * n)]

\* ------------------------------------------------------------------------
\* Overview decoder.  A decoder's outcome is [exc, val]: exc names the
\* exception that leaves the decoder ("none" when it returns val).
\* ------------------------------------------------------------------------
VEHICLE_REGISTRATION_LEN == 14
DOWNLOAD_ACTIVITY_LEN == 59
COMPANY_LOCK_LEN == 99
CONTROL_ACTIVITY_LEN == 32

EmptyOverview ==
    [vin |-> NoneVal, registration_number |-> NoneVal, current_time_raw |-> NoneVal,
     download_period_begin_raw |-> NoneVal, download_period_end_raw |-> NoneVal,
     card_slots_status |-> NoByte, last_download |-> NoneVal,
     company_locks |-> << >>, control_activities |-> << >>]

\* Lines 1056-1078: one record array with record_count > 0.
OverviewRecord(ov, t) ==
    LET rd == t.record_data
        first == Slice(rd, 0, t.record_size)
    IN  CASE t.record_type = 10 ->
               [exc |-> "none", val |-> [ov EXCEPT !.vin = <<Strip(first)>>]]
          [] t.record_type = 11 ->
               IF Len(first) < VEHICLE_REGISTRATION_LEN
               THEN [exc |-> "ValueError", val |-> ov]
               ELSE [exc |-> "none",
                     val |-> [ov EXCEPT !.registration_number =
                                 << [code_page |-> first[1],
                                     registration_number |-> FixedStr(Slice(first, 1, 14))] >>]]
          [] t.record_type = 3 ->
               [exc |-> "none", val |-> [ov EXCEPT !.current_time_raw = <<Slice(rd, 0, 4)>>]]
          [] t.record_type = 19 ->
               [exc |-> "none",
                val |-> [ov EXCEPT !.download_period_begin_raw = <<Slice(rd, 0, 4)>>,
                                   !.download_period_end_raw = <<Slice(rd, 4, 8)>>]]
          [] t.record_type = 2 ->
               IF rd = << >>
               THEN [exc |-> "IndexError", val |-> ov]
               ELSE [exc |-> "none", val |-> [ov EXCEPT !.card_slots_status = rd[1]]]
          [] t.record_type = 20 ->
               IF Len(first) < DOWNLOAD_ACTIVITY_LEN
               THEN [exc |-> "ValueError", val |-> ov]
               ELSE [exc |-> "none",
                     val |-> [ov EXCEPT !.last_download = <<Slice(first, 0, DOWNLOAD_ACTIVITY_LEN)>>]]
          [] t.record_type = 16 ->
               IF Len(rd) < t.record_count * COMPANY_LOCK_LEN
               THEN [exc |-> "ValueError", val |-> ov]
               ELSE [exc |-> "none",
                     val |-> [ov EXCEPT !.company_locks =
                                 @ \o Pieces(rd, COMPANY_LOCK_LEN, t.record_count)]]
          [] t.record_type = 17 ->
               IF Len(rd) < t.record_count * CONTROL_ACTIVITY_LEN
               THEN [exc |-> "ValueError", val |-> ov]
               ELSE [exc |-> "none",
                     val |-> [ov EXCEPT !.control_activities =
                                 @ \o Pieces(rd, CONTROL_ACTIVITY_LEN, t.record_count)]]
          [] OTHER -> [exc |-> "none", val |-> ov]

\* The while loop of _parse_overview_gen2 from offset off of the segment.
RECURSIVE OverviewLoop(_, _, _)
OverviewLoop(seg, off, ov) ==
    IF Len(seg) - off < 5 THEN [exc |-> "none", val |-> ov]
    ELSE Apply(LAMBDA t :
             IF ~t.fits THEN [exc |-> "none", val |-> ov]
             ELSE IF t.record_count = 0 THEN OverviewLoop(seg, t.next, ov)
             ELSE Apply(LAMBDA r :
                      IF r.exc # "none" THEN r ELSE OverviewLoop(seg, t.next, r.val),
                    OverviewRecord(ov, t)),
           DecoderTriple(seg, off))

ParseOverviewGen2(segment) == OverviewLoop(segment, 2, EmptyOverview)

\* _parse_overview: the overview of the first TREP 0x21 segment; val is
\* << >> for None and <<overview>> otherwise.
ParseOverview(d, hdr) ==
    IF hdr.detected_type # "vehicle_unit" THEN [exc |-> "none", val |-> NoneVal]
    ELSE LET offsets == IterTrepOffsets(d)
             hits == {i \in 1..Len(offsets) : offsets[i][2] = 33}
         IN  IF hits = {} THEN [exc |-> "none", val |-> NoneVal]
             ELSE LET idx == CHOOSE i \in hits : \A j \in hits : i <= j
                      r == ParseOverviewGen2(SliceSegment(d, offsets, idx))
                  IN  IF r.exc # "none" THEN [exc |-> r.exc, val |-> NoneVal]
                      ELSE [exc |-> "none", val |-> <<r.val>>]

\* ------------------------------------------------------------------------
\* Activity decoder
\* ------------------------------------------------------------------------
CARD_IW_RECORD_LEN == 129
MINUTES_PER_DAY == 1440

\* _decode_activity_change_info with a 12-bit minutes field
DecodeActivityChangeInfoWideMinutes(value) ==
    [slot |-> (value \div 32768) % 2,
     driving_status |-> (value \div 16384) % 2,
     card_status |-> (value \div 8192) % 2,
     activity |-> (value \div 2048) % 4,
     minutes |-> value % 4096]

\* _decode_activity_change_info on a 16-bit word
DecodeActivityChangeInfo(value) ==
    [slot |-> (value \div 32768) % 2,
     driving_status |-> (value \div 16384) % 2,
     card_status |-> (value \div 8192) % 2,
     activity |-> (value \div 2048) % 4,
     minutes |-> value % 2048]

\* parse_activity_change_infos: one change per complete 16-bit word
ParseActivityChangeInfos(raw) ==
    [i \in 1..(Len(raw) \div 2) |-> DecodeActivityChangeInfo(U16BE(raw, 2 * (i - 1)))]

SelectSlot(changes, slot) == SelectSeq(changes, LAMBDA c : c.slot = slot)

\* sorted(..., key=minutes): a stable sort
RECURSIVE InsertByMinutes(_, _)
InsertByMinutes(sorted, c) ==
    IF sorted = << >> THEN <<c>>
    ELSE IF sorted[Len(sorted)].minutes <= c.minutes THEN Append(sorted, c)
    ELSE Append(InsertByMinutes(SubSeq(sorted, 1, Len(sorted) - 1), c), sorted[Len(sorted)])

RECURSIVE SortByMinutes(_)
SortByMinutes(changes) ==
    IF changes = << >> THEN << >>
    ELSE InsertByMinutes(SortByMinutes(SubSeq(changes, 1, Len(changes) - 1)),
                         changes[Len(changes)])

\* The segments of one slot (lines 706-723)
RECURSIVE SlotSegments(_, _, _, _)
SlotSegments(date_raw, slot, slot_changes, idx) ==
    IF idx > Len(slot_changes) THEN << >>
    ELSE LET change == slot_changes[idx]
             start == change.minutes
             end == IF idx + 1 <= Len(slot_changes)
                    THEN slot_changes[idx + 1].minutes ELSE MINUTES_PER_DAY
             rest == SlotSegments(date_raw, slot, slot_changes, idx + 1)
         IN  IF start = end THEN rest
             ELSE << [date_raw |-> date_raw, slot |-> slot,
                      start_minute |-> start, end_minute |-> end,
                      activity |-> change.activity, card_status |-> change.card_status,
                      driving_status |-> change.driving_status] >> \o rest

\* build_activity_segments with the changes of a slot taken latest first
\* before the sort, so that of the changes of one minute the earliest in the
\* input comes last
BuildActivitySegmentsEarliestWins(date_raw, changes) ==
    SlotSegments(date_raw, 0,
                 SortByMinutes(SelectSlot([i \in 1..Len(changes) |->
                                              changes[Len(changes) + 1 - i]], 0)), 1)
    \o SlotSegments(date_raw, 1,
                    SortByMinutes(SelectSlot([i \in 1..Len(changes) |->
                                                 changes[Len(changes) + 1 - i]], 1)), 1)

BuildActivitySegments(date_raw, changes) ==
    SlotSegments(date_raw, 0, SortByMinutes(SelectSlot(changes, 0)), 1)
    \o SlotSegments(date_raw, 1, SortByMinutes(SelectSlot(changes, 1)), 1)

EmptyActivity ==
    [date_raw |-> NoneVal, odometer_midnight |-> NoByte, changes |-> << >>,
     card_iw_records |-> << >>]

\* Lines 1877-1892: one record array with record_count > 0.
ActivityRecord(acc, t) ==
    LET rd == t.record_data
    IN  CASE t.record_type = 6 ->
               [exc |-> "none", val |-> [acc EXCEPT !.date_raw = <<Slice(rd, 0, 4)>>]]
          [] t.record_type = 5 ->
               [exc |-> "none",
                val |-> IF t.record_size >= 3
                        THEN [acc EXCEPT !.odometer_midnight =
                                 rd[1] * 65536 + rd[2] * 256 + rd[3]]
                        ELSE acc]
          [] t.record_type = 1 ->
               [exc |-> "none", val |-> [acc EXCEPT !.changes = ParseActivityChangeInfos(rd)]]
          [] t.record_type = 13 ->
               IF t.record_size < CARD_IW_RECORD_LEN
               THEN [exc |-> "ValueError", val |-> acc]
               ELSE [exc |-> "none",
                     val |-> [acc EXCEPT !.card_iw_records =
                                 @ \o [i \in 1..t.record_count |->
                                         Slice(rd, (i - 1) * t.record_size,
                                               (i - 1) * t.record_size + CARD_IW_RECORD_LEN)]]]
          [] OTHER -> [exc |-> "none", val |-> acc]

RECURSIVE ActivityLoop(_, _, _)
ActivityLoop(seg, off, acc) ==
    IF Len(seg) - off < 5 THEN [exc |-> "none", val |-> acc]
    ELSE Apply(LAMBDA t :
             IF ~t.fits THEN [exc |-> "none", val |-> acc]
             ELSE IF t.record_count = 0 THEN ActivityLoop(seg, t.next, acc)
             ELSE Apply(LAMBDA r :
                      IF r.exc # "none" THEN r ELSE ActivityLoop(seg, t.next, r.val),
                    ActivityRecord(acc, t)),
           DecoderTriple(seg, off))

\* _parse_activity_segment: val is << >> for None, <<day>> otherwise.
ParseActivitySegment(segment) ==
    LET r == ActivityLoop(segment, 2, EmptyActivity)
    IN  IF r.exc # "none" THEN [exc |-> r.exc, val |-> NoneVal]
        ELSE IF r.val.date_raw = NoneVal \/ r.val.changes = << >>
        THEN [exc |-> "none", val |-> NoneVal]
        ELSE [exc |-> "none",
              val |-> << [date_raw |-> r.val.date_raw[1],
                          odometer_midnight |-> r.val.odometer_midnight,
                          changes |-> r.val.changes,
                          segments |-> BuildActivitySegments(r.val.date_raw[1], r.val.changes),
                          card_iw_records |-> r.val.card_iw_records] >>]

\* for idx, (_offset, trep) in enumerate(offsets) from idx on (lines 1104-1110)
RECURSIVE ActivitiesFrom(_, _, _, _)
ActivitiesFrom(d, offsets, idx, days) ==
    IF idx > Len(offsets) THEN [exc |-> "none", val |-> days]
    ELSE IF offsets[idx][2] # 34 THEN ActivitiesFrom(d, offsets, idx + 1, days)
    ELSE LET r == ParseActivitySegment(SliceSegment(d, offsets, idx))
         IN  IF r.exc # "none" THEN [exc |-> r.exc, val |-> << >>]
             ELSE ActivitiesFrom(d, offsets, idx + 1, days \o r.val)

ParseActivities(d, hdr) ==
    IF hdr.detected_type # "vehicle_unit" THEN [exc |-> "none", val |-> << >>]
    ELSE ActivitiesFrom(d, IterTrepOffsets(d), 1, << >>)

\* ------------------------------------------------------------------------
\* Events-and-faults decoder.  A 32-bit TimeReal is kept as its four
\* big-endian bytes; a decoded card number, name or address as the bytes it
\* was read from.
\* ------------------------------------------------------------------------
EVENT_RECORD_LEN == 86
FAULT_RECORD_LEN == 86
OVERSPEED_CONTROL_LEN == 8
OVERSPEED_EVENT_LEN == 31
FULL_CARD_NUMBER_GEN2_LEN == 19

TimeRealZero == <<0, 0, 0, 0>>
TimeRealMax == <<255, 255, 255, 255>>

\* a <= b for two TimeReal values kept as their four big-endian bytes
TimeRealLeq(a, b) ==
    \/ a = b
    \/ \E k \in 1..4 : a[k] < b[k] /\ \A j \in 1..(k - 1) : a[j] = b[j]

TimeRealWindowLow == <<56, 109, 67, 128>>       \* 946684800, 2000-01-01T00:00:00Z
TimeRealWindowHigh == <<112, 219, 216, 128>>    \* 1893456000, 2030-01-01T00:00:00Z

\* _looks_like_time_real: 946684800 <= value <= 1893456000
LooksLikeTimeReal(value) ==
    TimeRealLeq(TimeRealWindowLow, value) /\ TimeRealLeq(value, TimeRealWindowHigh)

\* _time_real_to_iso: None for 0, otherwise the rendering of the value
TimeRealToIso(raw) == IF raw = TimeRealZero THEN NoneVal ELSE <<"iso", raw>>

\* _normalize_time_real: (raw, iso)
NormalizeTimeReal(raw) ==
    IF raw = TimeRealZero \/ raw = TimeRealMax
    THEN [raw |-> NoneVal, iso |-> NoneVal]
    ELSE [raw |-> <<raw>>, iso |-> TimeRealToIso(raw)]

\* parse_event_record on a chunk of at least EVENT_RECORD_LEN bytes
ParseEventRecord(chunk) ==
    LET begin == NormalizeTimeReal(Slice(chunk, 2, 6))
        end == NormalizeTimeReal(Slice(chunk, 6, 10))
    IN  [event_type |-> chunk[1], record_purpose |-> chunk[2],
         begin_time_raw |-> begin.raw, begin_time_iso |-> begin.iso,
         end_time_raw |-> end.raw, end_time_iso |-> end.iso,
         driver_card_begin |-> Slice(chunk, 10, 29),
         driver_card_end |-> Slice(chunk, 29, 48),
         codriver_card_begin |-> Slice(chunk, 48, 67),
         codriver_card_end |-> Slice(chunk, 67, 86),
         similar_events |-> IF Len(chunk) > EVENT_RECORD_LEN THEN chunk[87] ELSE NoByte]

ParseFaultRecord(chunk) ==
    LET begin == NormalizeTimeReal(Slice(chunk, 2, 6))
        end == NormalizeTimeReal(Slice(chunk, 6, 10))
    IN  [fault_type |-> chunk[1], record_purpose |-> chunk[2],
         begin_time_raw |-> begin.raw, begin_time_iso |-> begin.iso,
         end_time_raw |-> end.raw, end_time_iso |-> end.iso,
         driver_card_begin |-> Slice(chunk, 10, 29),
         driver_card_end |-> Slice(chunk, 29, 48),
         codriver_card_begin |-> Slice(chunk, 48, 67),
         codriver_card_end |-> Slice(chunk, 67, 86)]

ParseOverspeedControlData(chunk) ==
    LET last == NormalizeTimeReal(Slice(chunk, 0, 4))
        first == NormalizeTimeReal(Slice(chunk, 4, 8))
    IN  [last_overspeed_control_time_raw |-> last.raw,
         last_overspeed_control_time_iso |-> last.iso,
         first_overspeed_since_raw |-> first.raw,
         first_overspeed_since_iso |-> first.iso,
         number_of_overspeed_since |-> IF Len(chunk) > OVERSPEED_CONTROL_LEN THEN chunk[9] ELSE 0]

ParseOverspeedEventRecord(chunk) ==
    LET begin == NormalizeTimeReal(Slice(chunk, 2, 6))
        end == NormalizeTimeReal(Slice(chunk, 6, 10))
    IN  [event_type |-> chunk[1], record_purpose |-> chunk[2],
         begin_time_raw |-> begin.raw, begin_time_iso |-> begin.iso,
         end_time_raw |-> end.raw, end_time_iso |-> end.iso,
         max_speed |-> chunk[11], average_speed |-> chunk[12],
         card_number |-> Slice(chunk, 12, 31),
         similar_events |-> IF Len(chunk) > OVERSPEED_EVENT_LEN THEN chunk[32] ELSE 0]

\* The chunks of a record array that its parser accepts (e.g. lines
\* 1152-1161): a chunk shorter than the record's width raises ValueError
\* inside the try and is skipped, so nothing is decoded when record_size is
\* below min_len.
DecodableChunks(t, min_len) ==
    IF t.record_size < min_len THEN << >>
    ELSE Pieces(t.record_data, t.record_size, t.record_count)

EmptyEventsFaults ==
    [events |-> << >>, faults |-> << >>, overspeed_control |-> NoneVal,
     overspeed_events |-> << >>]

\* Lines 1151-1194: one record array with record_count > 0.
EventsFaultsRecord(acc, t) ==
    CASE t.record_type = 21 ->
           LET chunks == DecodableChunks(t, EVENT_RECORD_LEN)
           IN  [acc EXCEPT !.events =
                   @ \o [i \in 1..Len(chunks) |-> ParseEventRecord(chunks[i])]]
      [] t.record_type = 24 ->
           LET chunks == DecodableChunks(t, FAULT_RECORD_LEN)
           IN  [acc EXCEPT !.faults =
                   @ \o [i \in 1..Len(chunks) |-> ParseFaultRecord(chunks[i])]]
      [] t.record_type = 26 ->
           LET chunks == DecodableChunks(t, OVERSPEED_CONTROL_LEN)
           IN  IF chunks = << >> THEN acc
               ELSE [acc EXCEPT !.overspeed_control =
                        <<ParseOverspeedControlData(chunks[Len(chunks)])>>]
      [] t.record_type = 27 ->
           LET chunks == DecodableChunks(t, OVERSPEED_EVENT_LEN)
           IN  [acc EXCEPT !.overspeed_events =
                   @ \o [i \in 1..Len(chunks) |-> ParseOverspeedEventRecord(chunks[i])]]
      [] OTHER -> acc

RECURSIVE EventsFaultsLoop(_, _, _)
EventsFaultsLoop(seg, off, acc) ==
    IF Len(seg) - off < 5 THEN acc
    ELSE Apply(LAMBDA t :
             IF ~t.fits THEN acc
             ELSE IF t.record_count = 0 THEN EventsFaultsLoop(seg, t.next, acc)
             ELSE Apply(LAMBDA next : EventsFaultsLoop(seg, t.next, next),
                        EventsFaultsRecord(acc, t)),
           DecoderTriple(seg, off))

RECURSIVE EventsFaultsFrom(_, _, _, _)
EventsFaultsFrom(d, offsets, idx, acc) ==
    IF idx > Len(offsets) THEN acc
    ELSE IF offsets[idx][2] \notin {3, 35, 51} THEN EventsFaultsFrom(d, offsets, idx + 1, acc)
    ELSE EventsFaultsFrom(d, offsets, idx + 1,
                          EventsFaultsLoop(SliceSegment(d, offsets, idx), 2, acc))

\* _parse_events_faults; no exception leaves it.
ParseEventsFaults(d, hdr) ==
    IF hdr.detected_type # "vehicle_unit"
    THEN [exc |-> "none", val |-> EmptyEventsFaults]
    ELSE [exc |-> "none", val |-> EventsFaultsFrom(d, IterTrepOffsets(d), 1, EmptyEventsFaults)]

\* ------------------------------------------------------------------------
\* VU identification locator
\* ------------------------------------------------------------------------
VU_IDENTIFICATION_LEN == 116
MAX_IDENT_PREFIX == 12

\* _looks_like_text(text, min_alnum, min_length) with ratio 0.9
LooksLikeText(text, min_alnum, min_length) ==
    LET stripped == Strip(text)
    IN  /\ Len(stripped) >= min_length
        /\ CountIn(stripped, PrintableBytes) * 10 >= 9 * Len(stripped)
        /\ CountIn(stripped, AlnumBytes) >= min_alnum
        /\ stripped[1] \in AlnumBytes

\* parse_vu_identification on the bytes at the reader
ParseVuIdentificationFields(b) ==
    [manufacturer_name |-> [code_page |-> b[1], text |-> FixedStr(Slice(b, 1, 36))],
     manufacturer_address |-> [code_page |-> b[37], text |-> FixedStr(Slice(b, 37, 72))],
     part_number |-> FixedStr(Slice(b, 72, 88)),
     serial_number |-> Slice(b, 88, 96),
     software_identification |-> Slice(b, 96, 104),
     manufacturing_date_raw |-> Slice(b, 104, 108),
     approval_number |-> FixedStr(Slice(b, 108, 116))]

LooksLikeIdentification(f) ==
    /\ LooksLikeText(f.manufacturer_name.text, 6, 4)
    /\ LooksLikeText(f.manufacturer_address.text, 8, 4)
    /\ LooksLikeText(f.part_number, 4, 4)
    /\ LooksLikeText(f.approval_number, 2, 2)

\* The (candidate, prefix) pairs at which a plausible block decodes.
IdentificationHits(d, offsets) ==
    {c \in (1..Len(offsets)) \X (0..MAX_IDENT_PREFIX) :
        /\ offsets[c[1]][2] \in TECH_TREPS
        /\ offsets[c[1]][1] + 2 + c[2] + VU_IDENTIFICATION_LEN <= Len(d)
        /\ LooksLikeIdentification(ParseVuIdentificationFields(
               Slice(d, offsets[c[1]][1] + 2 + c[2],
                     offsets[c[1]][1] + 2 + c[2] + VU_IDENTIFICATION_LEN)))}

\* _parse_vu_identification: the first acceptance in (segment, prefix) order
ParseVuIdentification(d, hdr) ==
    IF hdr.detected_type # "vehicle_unit" THEN [exc |-> "none", val |-> NoneVal]
    ELSE LET offsets == IterTrepOffsets(d)
             hits == IdentificationHits(d, offsets)
         IN  IF hits = {} THEN [exc |-> "none", val |-> NoneVal]
             ELSE LET c == CHOOSE x \in hits : \A y \in hits :
                               x[1] < y[1] \/ (x[1] = y[1] /\ x[2] <= y[2])
                      base == offsets[c[1]][1] + 2 + c[2]
                  IN  [exc |-> "none",
                       val |-> << [fields |-> ParseVuIdentificationFields(
                                                 Slice(d, base, base + VU_IDENTIFICATION_LEN)),
                                   source_trep |-> offsets[c[1]][2],
                                   source_offset |-> offsets[c[1]][1],
                                   prefix_bytes |-> c[2]] >>]

\* ------------------------------------------------------------------------
\* Driver-card EF walker and per-part validation
\* ------------------------------------------------------------------------
CARD_SIGNATURE_LEN == 128
CARD_CERT_LEN == 194

\* _CARD_PART_DEFS: name, file id (-1 for None), requires_sig, rule, schemes
CARD_PART_DEFS ==
    << <<"File structure", NoByte, FALSE, << >>, << >> >>,
       <<"Application identification", 1281, TRUE, <<"min", 10>>, <<"gen1", "gen2">> >>,
       <<"Card identification", 1312, TRUE, <<"min", 143>>, <<"gen1", "gen2">> >>,
       <<"Driving licence info", 1313, TRUE, <<"min", 53>>, <<"gen1", "gen2">> >>,
       <<"Events", 1282, TRUE, <<"min", 1>>, <<"gen1", "gen2">> >>,
       <<"Faults", 1283, TRUE, <<"min", 1>>, <<"gen1", "gen2">> >>,
       <<"Driver activity", 1284, TRUE, <<"range", 5548, 13780>>, <<"gen1", "gen2">> >>,
       <<"Vehicles used", 1285, TRUE, <<"min", 1>>, <<"gen1", "gen2">> >>,
       <<"Places", 1286, TRUE, <<"min", 1>>, <<"gen1", "gen2">> >>,
       <<"Current usage", 1287, TRUE, <<"min", 1>>, <<"gen1", "gen2">> >>,
       <<"Control activity", 1288, TRUE, <<"min", 1>>, <<"gen1", "gen2">> >>,
       <<"Specific conditions", 1314, TRUE, <<"min", 1>>, <<"gen1", "gen2">> >>,
       <<"GNSS places (Gen2)", 1315, TRUE, <<"min", 2002>>, <<"gen2">> >>,
       <<"Border crossings (Gen2)", 1316, TRUE, <<"min", 6050>>, <<"gen2">> >>,
       <<"Card download", 1294, TRUE, <<"min", 4>>, <<"gen1", "gen2">> >>,
       <<"Card certificate", 49408, FALSE, <<"min", 194>>, <<"gen1">> >>,
       <<"CA certificate", 49416, FALSE, <<"min", 194>>, <<"gen1">> >>,
       <<"Card certificate (Gen2)", 49409, FALSE, <<"min", 194>>, <<"gen2">> >>,
       <<"CA certificate (Gen2)", 49417, FALSE, <<"min", 194>>, <<"gen2">> >>,
       <<"ICC identification", 2, FALSE, <<"min", 1>>, <<"gen1", "gen2">> >>,
       <<"IC identification", 5, FALSE, <<"min", 1>>, <<"gen1", "gen2">> >> >>

\* _CARD_APPENDIX_SCHEMES
CardAppendixScheme(scheme) ==
    IF scheme = "gen1" THEN [data |-> 0, sig |-> 1, sig_len |-> 128]
    ELSE [data |-> 2, sig |-> 3, sig_len |-> 64]

KnownCardIds ==
    {CARD_PART_DEFS[i][2] : i \in 1..Len(CARD_PART_DEFS)} \ {NoByte}

\* _parse_card_ef_files from offset on, with the entries read so far
RECURSIVE CardEfFilesFrom(_, _, _)
CardEfFilesFrom(d, offset, entries) ==
    IF offset + 5 <= Len(d)
    THEN LET length == U16BE(d, offset + 3)
             end == offset + 5 + length
         IN  IF end > Len(d)
             THEN [entries |-> entries, trailing |-> offset # Len(d), truncated |-> TRUE]
             ELSE CardEfFilesFrom(d, end,
                      Append(entries, [file_id |-> U16BE(d, offset),
                                       appendix |-> At(d, offset + 2),
                                       length |-> length, offset |-> offset,
                                       data |-> Slice(d, offset + 5, end)]))
    ELSE [entries |-> entries, trailing |-> offset # Len(d), truncated |-> FALSE]

\* _parse_card_ef_files reporting neither a truncated entry nor trailing bytes
ParseCardEfFilesLenient(d) ==
    [CardEfFilesFrom(d, 0, << >>) EXCEPT !.trailing = FALSE, !.truncated = FALSE]

ParseCardEfFiles(d) == CardEfFilesFrom(d, 0, << >>)

ValidateCardLength(length, rule) ==
    IF rule = << >> THEN TRUE
    ELSE IF rule[1] = "min" THEN length >= rule[2]
    ELSE IF rule[1] = "range" THEN rule[2] <= length /\ length <= rule[3]
    ELSE TRUE

\* CardSchemeResult with no signature ever required
CardSchemeResultUnsigned(entries, requires_sig, rule, scheme) ==
    LET info == CardAppendixScheme(scheme)
        data_entries == SelectSeq(entries, LAMBDA e : e.appendix = info.data)
        sig_entries == SelectSeq(entries, LAMBDA e : e.appendix = info.sig)
        data_ok == data_entries # << >> /\ ValidateCardLength(data_entries[1].length, rule)
    IN  [scheme |-> scheme,
         applicable |-> data_entries # << >> \/ sig_entries # << >>,
         valid |-> data_ok,
         notes |-> IF data_entries = << >> THEN <<"Missing data appendix">>
                   ELSE IF ~data_ok THEN <<"Unexpected length">> ELSE << >>]

\* The result of one scheme (lines 842-870): applicable is FALSE where the
\* source skips the scheme.
CardSchemeResult(entries, requires_sig, rule, scheme) ==
    LET info == CardAppendixScheme(scheme)
        data_entries == SelectSeq(entries, LAMBDA e : e.appendix = info.data)
        sig_entries == SelectSeq(entries, LAMBDA e : e.appendix = info.sig)
        data_ok == data_entries # << >> /\ ValidateCardLength(data_entries[1].length, rule)
        sig_ok == ~requires_sig
                  \/ (sig_entries # << >> /\ sig_entries[1].length = info.sig_len)
        notes ==
            (IF Len(data_entries) > 1 THEN <<"Duplicate data entries">> ELSE << >>)
            \o (IF Len(sig_entries) > 1 THEN <<"Duplicate signature entries">> ELSE << >>)
            \o (IF data_entries = << >> THEN <<"Missing data appendix">>
                ELSE IF ~data_ok THEN <<"Unexpected length">> ELSE << >>)
            \o (IF ~requires_sig THEN << >>
                ELSE IF sig_entries = << >> THEN <<"Missing signature appendix">>
                ELSE IF ~sig_ok THEN <<"Invalid signature length">> ELSE << >>)
    IN  [scheme |-> scheme,
         applicable |-> data_entries # << >> \/ sig_entries # << >>,
         valid |-> data_ok /\ sig_ok,
         notes |-> notes]

\* _validate_card_entries: (status, note); the note is the list of
\* (label, notes) pairs that the source joins, << >> for None.
ValidateCardEntries(entries, requires_sig, rule, schemes) ==
    LET all == [i \in 1..Len(schemes) |->
                   CardSchemeResult(entries, requires_sig, rule, schemes[i])]
        scheme_results == SelectSeq(all, LAMBDA r : r.applicable)
        noted == SelectSeq(scheme_results, LAMBDA r : r.notes # << >>)
        combined == [i \in 1..Len(noted) |->
                        <<IF noted[i].scheme = "gen1" THEN "Gen1" ELSE "Gen2", noted[i].notes>>]
    IN  IF entries = << >> \/ scheme_results = << >>
        THEN [status |-> "missing", note |-> << >>]
        ELSE IF \E i \in 1..Len(scheme_results) : scheme_results[i].valid
        THEN [status |-> "valid", note |-> combined]
        ELSE [status |-> "invalid", note |-> combined]

\* _get_card_file_data: the data of the first matching entry, in appendix
\* order; found is FALSE for None.
GetCardFileData(entries, file_id, appendices) ==
    LET hits == {p \in (1..Len(appendices)) \X (1..Len(entries)) :
                    entries[p[2]].file_id = file_id
                    /\ entries[p[2]].appendix = appendices[p[1]]}
    IN  IF hits = {} THEN [found |-> FALSE, data |-> << >>]
        ELSE LET p == CHOOSE x \in hits : \A y \in hits :
                          x[1] < y[1] \/ (x[1] = y[1] /\ x[2] <= y[2])
             IN  [found |-> TRUE, data |-> entries[p[2]].data]

\* _verify_driver_card_certificate reads data[:128] (the signature) and
\* data[128:186] (CNdash) and nothing else of the certificate
CERT_SIGNED_LEN == 186

\* VerifyDriverCardCertificates without the check of the card certificate
\* under the member-state key
VerifyCaCertificateOnly(ca_data, card_data, rsa) ==
    IF Len(ca_data) < CARD_CERT_LEN \/ Len(card_data) < CARD_CERT_LEN
    THEN [ok |-> FALSE, note |-> <<"Certificate data truncated">>]
    ELSE IF Slice(ca_data, 0, CERT_SIGNED_LEN) \notin rsa.ca
    THEN [ok |-> FALSE, note |-> <<"CA certificate invalid">>]
    ELSE [ok |-> TRUE, note |-> << >>]

\* _verify_driver_card_certificates.  The RSA recovery and SHA-1 digest
\* comparison of _verify_driver_card_certificate are not computed: their
\* outcome is a function of the signed bytes and the key, and rsa.ca and
\* rsa.card hold the signed bytes for which they succeed, for the CA
\* certificate under the European root key and for the card certificate
\* under the member-state key recovered from the CA certificate.  The
\* recovered content is always 164 bytes, so the member-state key slices
\* always have their full length.
VerifyDriverCardCertificates(ca_data, card_data, rsa) ==
    IF Len(ca_data) < CARD_CERT_LEN \/ Len(card_data) < CARD_CERT_LEN
    THEN [ok |-> FALSE, note |-> <<"Certificate data truncated">>]
    ELSE IF Slice(ca_data, 0, CERT_SIGNED_LEN) \notin rsa.ca
    THEN [ok |-> FALSE, note |-> <<"CA certificate invalid">>]
    ELSE IF Slice(card_data, 0, CERT_SIGNED_LEN) \notin rsa.card
    THEN [ok |-> FALSE, note |-> <<"Card certificate invalid">>]
    ELSE [ok |-> TRUE, note |-> << >>]

\* Entries of one file id, in file order (entries_by_id.get(file_id, []))
EntriesOf(entries, file_id) == SelectSeq(entries, LAMBDA e : e.file_id = file_id)

\* _validate_driver_card_parts
ValidateDriverCardParts(d, rsa) ==
    LET ef == ParseCardEfFiles(d)
        unknown_ids == {ef.entries[i].file_id : i \in
                           {j \in 1..Len(ef.entries) :
                               ef.entries[j].appendix \in {0, 1}
                               /\ ef.entries[j].file_id \notin KnownCardIds}}
        structure_note ==
            (IF ef.truncated THEN << <<"Truncated file entry">> >> ELSE << >>)
            \o (IF ef.trailing THEN << <<"Trailing bytes after last file entry">> >> ELSE << >>)
            \o (IF unknown_ids # {} THEN << <<"Unknown EF file IDs", unknown_ids>> >> ELSE << >>)
        cert_ca == GetCardFileData(ef.entries, 49416, <<0>>)
        cert_card == GetCardFileData(ef.entries, 49408, <<0>>)
        chain_ran == cert_ca.data # << >> /\ cert_card.data # << >>
        chain == IF chain_ran
                 THEN VerifyDriverCardCertificates(cert_ca.data, cert_card.data, rsa)
                 ELSE [ok |-> TRUE, note |-> << >>]
        chain_failed == chain_ran /\ ~chain.ok
    IN  [i \in 1..Len(CARD_PART_DEFS) |->
            LET def == CARD_PART_DEFS[i]
            IN  IF def[2] = NoByte
                THEN [name |-> def[1],
                      status |-> IF ~ef.truncated /\ ~ef.trailing THEN "valid" ELSE "invalid",
                      note |-> structure_note]
                ELSE LET v == ValidateCardEntries(EntriesOf(ef.entries, def[2]),
                                                  def[3], def[4], def[5])
                         failed == def[2] \in {49416, 49408} /\ chain_failed
                         status == IF failed THEN "invalid" ELSE v.status
                     IN  [name |-> def[1], status |-> status,
                          note |-> v.note
                                   \o (IF failed /\ chain.note # << >>
                                       THEN <<chain.note>> ELSE << >>)
                                   \o (IF def[2] \in {49409, 49417} /\ status = "valid"
                                       THEN << <<"ECC certificate not verified">> >>
                                       ELSE << >>)]]

\* ------------------------------------------------------------------------
\* Driver-card record decoders
\* ------------------------------------------------------------------------
\* The raw and ISO fields of a time of a card record (e.g. lines 1457-1460):
\* the raw value is kept where it looks like a TimeReal, the ISO text is
\* rendered from the value read
CardTimeFields(value) ==
    [raw |-> IF LooksLikeTimeReal(value) THEN <<value>> ELSE NoneVal,
     iso |-> TimeRealToIso(value)]

\* _get_card_file_entry: the first matching entry, in appendix order; << >>
\* for None, <<entry>> otherwise.
GetCardFileEntry(entries, file_id, appendices) ==
    LET hits == {p \in (1..Len(appendices)) \X (1..Len(entries)) :
                    entries[p[2]].file_id = file_id
                    /\ entries[p[2]].appendix = appendices[p[1]]}
    IN  IF hits = {} THEN << >>
        ELSE LET p == CHOOSE x \in hits : \A y \in hits :
                          x[1] < y[1] \/ (x[1] = y[1] /\ x[2] <= y[2])
             IN  <<entries[p[2]]>>

\* _find_driver_card_tag_record: (start, length) of the first occurrence of
\* the two bytes of record_id followed by a 3-byte length within
\* min_length..max_length whose payload ends within the data; << >> for None.
FindDriverCardTagRecord(d, record_id, min_length, max_length) ==
    LET length(idx) == At(d, idx + 2) * 65536 + At(d, idx + 3) * 256 + At(d, idx + 4)
        hits == {idx \in 0..(Len(d) - 5) :
                    /\ At(d, idx) = record_id \div 256
                    /\ At(d, idx + 1) = record_id % 256
                    /\ length(idx) >= min_length
                    /\ length(idx) <= max_length
                    /\ idx + 5 + length(idx) <= Len(d)}
    IN  IF hits = {} THEN << >>
        ELSE LET idx == CHOOSE i \in hits : \A j \in hits : i <= j
             IN  <<idx + 5, length(idx)>>

\* _parse_card_application_identification: << >> for None.  Of the
\* CardApplicationIdentification, the counts the record decoders use are kept.
ParseCardApplicationIdentification(d, entry) ==
    LET record == FindDriverCardTagRecord(d, 1281, 10, 17)
        payload == IF entry # << >> THEN entry[1].data
                   ELSE IF record = << >> THEN << >>
                   ELSE Slice(d, record[1], record[1] + record[2])
    IN  IF Len(payload) < 10 \/ payload[1] \notin {1, 2, 3, 4, 5, 6} THEN << >>
        ELSE << [card_type |-> payload[1],
                 events_per_type |-> payload[4],
                 faults_per_type |-> payload[5],
                 vehicle_records |-> U16BE(payload, 7)] >>

\* _parse_driver_card_vehicles_used; file is the outcome of
\* _get_card_file_data and vehicle_records is 0 for None.
ParseDriverCardVehiclesUsed(file, vehicle_records) ==
    IF ~file.found \/ Len(file.data) < 33 THEN << >>
    ELSE LET payload_len == Len(file.data) - 2
             record_len == IF payload_len % 48 = 0 THEN 48
                           ELSE IF payload_len % 31 = 0 THEN 31
                           ELSE IF payload_len >= 48 THEN 48 ELSE 31
             fitting == payload_len \div record_len
             record_count == IF vehicle_records # 0 /\ vehicle_records < fitting
                             THEN vehicle_records ELSE fitting
         IN  [idx \in 1..record_count |->
                LET record == Slice(file.data, 2 + (idx - 1) * record_len,
                                    2 + idx * record_len)
                IN  [first_use |-> CardTimeFields(Slice(record, 6, 10)),
                     last_use |-> CardTimeFields(Slice(record, 10, 14)),
                     odometer_begin |-> Slice(record, 0, 3),
                     odometer_end |-> Slice(record, 3, 6),
                     registration_nation |-> record[15],
                     registration_number |->
                         [code_page |-> record[16],
                          registration_number |-> FixedStr(Slice(record, 16, 29))],
                     vin |-> IF record_len = 48 THEN Strip(Slice(record, 31, 48))
                             ELSE << >>]]

\* _parse_driver_card_segments from its loop on (lines 1261-1271): the
\* (file id, data) segments read from offset on, each a 2-byte id, a 2-byte
\* length and the data; the caller starts it at offset 6
RECURSIVE ParseDriverCardSegments(_, _)
ParseDriverCardSegments(d, offset) ==
    IF offset + 4 > Len(d) \/ U16BE(d, offset + 2) = 0
       \/ offset + 4 + U16BE(d, offset + 2) > Len(d)
    THEN << >>
    ELSE << [file_id |-> U16BE(d, offset),
             data |-> Slice(d, offset + 4, offset + 4 + U16BE(d, offset + 2))] >>
         \o ParseDriverCardSegments(d, offset + 4 + U16BE(d, offset + 2))

\* _looks_like_driver_card_record
LooksLikeDriverCardRecord(chunk) ==
    /\ chunk # << >>
    /\ chunk[1] \in {0, 6, 8, 12, 33} \/ chunk[1] <= 64
    /\ \A k \in 12..Len(chunk) : chunk[k] = 0 \/ (32 <= chunk[k] /\ chunk[k] < 127)

\* The search of _find_driver_card_record_block and
\* _find_driver_card_condition_block, good being the offsets of the records
\* the search accepts: over the alignments 0..record_len-1 in order, the
\* longest run of consecutive accepted records at that alignment (the
\* earliest of the longest), a later alignment winning only with a strictly
\* longer run; <<start, count>>, << >> for None.
LongestRun(good, record_len) ==
    LET length(o) == CHOOSE n \in 1..(Cardinality(good) + 1) :
                         /\ \A k \in 0..(n - 1) : o + k * record_len \in good
                         /\ o + n * record_len \notin good
        starts == {o \in good : o - record_len \notin good}
        better(a, b) == \/ length(a) > length(b)
                        \/ /\ length(a) = length(b)
                           /\ \/ a % record_len < b % record_len
                              \/ a % record_len = b % record_len /\ a <= b
    IN  IF starts = {} THEN << >>
        ELSE LET best == CHOOSE a \in starts : \A b \in starts : better(a, b)
             IN  <<best, length(best)>>

\* _find_driver_card_record_block; min_run is 0 for None
FindDriverCardRecordBlock(d, record_len, min_run) ==
    LET best == LongestRun({o \in 0..(Len(d) - record_len) :
                               LooksLikeDriverCardRecord(Slice(d, o, o + record_len))},
                           record_len)
    IN  IF best # << >> /\ best[2] < min_run THEN << >> ELSE best

\* _find_driver_card_condition_block
FindDriverCardConditionBlock(d, record_len) ==
    LongestRun({o \in 0..(Len(d) - record_len) :
                   /\ At(d, o) \in {1, 2, 3, 4}
                   /\ LooksLikeTimeReal(Slice(d, o + 1, o + 5))},
               record_len)

\* The records of a block of 24-byte card event or fault records (lines
\* 1443-1465 and 1479-1501), those of event type 0 left out
CardEventRecords(d, block) ==
    LET chunks == [idx \in 1..block[2] |->
                      Slice(d, block[1] + (idx - 1) * 24, block[1] + idx * 24)]
        kept == SelectSeq(chunks, LAMBDA chunk : chunk[1] # 0)
    IN  [idx \in 1..Len(kept) |->
            [event_type |-> kept[idx][1],
             begin_time |-> CardTimeFields(Slice(kept[idx], 1, 5)),
             end_time |-> CardTimeFields(Slice(kept[idx], 5, 9)),
             registration_nation |-> kept[idx][10],
             registration_number |->
                 [code_page |-> kept[idx][11],
                  registration_number |-> FixedStr(Slice(kept[idx], 11, 24))]]]

\* _parse_driver_card_events; events_per_type is 0 for None
ParseDriverCardEvents(d, events_per_type) ==
    IF d = << >> \/ events_per_type = 0 THEN << >>
    ELSE LET block == FindDriverCardRecordBlock(d, 24, 0)
         IN  IF block = << >> THEN << >> ELSE CardEventRecords(d, block)

\* _parse_driver_card_faults; faults_per_type is 0 for None
ParseDriverCardFaults(d, faults_per_type) ==
    IF d = << >> \/ faults_per_type = 0 THEN << >>
    ELSE LET block == FindDriverCardRecordBlock(d, 24, faults_per_type)
         IN  IF block = << >> THEN << >> ELSE CardEventRecords(d, block)

\* _parse_driver_card_specific_conditions
ParseDriverCardSpecificConditions(d) ==
    IF d = << >> THEN << >>
    ELSE LET block == FindDriverCardConditionBlock(d, 5)
         IN  IF block = << >> THEN << >>
             ELSE [idx \in 1..block[2] |->
                     [time |-> CardTimeFields(Slice(d, block[1] + (idx - 1) * 5 + 1,
                                                    block[1] + idx * 5)),
                      condition_type |-> At(d, block[1] + (idx - 1) * 5)]]

\* _parse_driver_card_summary: None unless the file is a driver card.  Of
\* the DriverCardSummary, the events, faults, vehicles used and specific
\* conditions are kept.  The length test of _parse_driver_card_segments (line
\* 1258) is made here.
ParseDriverCardSummary(d, hdr) ==
    IF hdr.detected_type # "driver_card" THEN [exc |-> "none", val |-> NoneVal]
    ELSE LET segments == IF Len(d) < 10 THEN << >> ELSE ParseDriverCardSegments(d, 6)
             \* segments.get(file_id, b""): the first segment of the id wins
             SegmentData(file_id) ==
                 LET hits == {k \in 1..Len(segments) : segments[k].file_id = file_id}
                 IN  IF hits = {} THEN << >>
                     ELSE segments[CHOOSE k \in hits : \A j \in hits : k <= j].data
             entries == ParseCardEfFiles(d).entries
             card_app == ParseCardApplicationIdentification(
                             d, GetCardFileEntry(entries, 1281, <<2, 0>>))
         IN  [exc |-> "none",
              val |-> << [events |->
                              ParseDriverCardEvents(
                                  SegmentData(4621),
                                  IF card_app = << >> THEN 0
                                  ELSE card_app[1].events_per_type),
                          faults |->
                              ParseDriverCardFaults(
                                  SegmentData(4621),
                                  IF card_app = << >> THEN 0
                                  ELSE card_app[1].faults_per_type),
                          vehicles_used |->
                              ParseDriverCardVehiclesUsed(
                                  GetCardFileData(entries, 1285, <<2, 0>>),
                                  IF card_app = << >> THEN 0
                                  ELSE card_app[1].vehicle_records),
                          specific_conditions |->
                              ParseDriverCardSpecificConditions(
                                  SegmentData(17440))] >>]

\* ------------------------------------------------------------------------
\* Inputs.  A file is a concatenation of at most MaxChunks pieces drawn from
\* Chunks (segment starts, record-array headers, filler bytes, the pinned
\* driver-card prefix), or one of the fixed Scenarios.
\* ------------------------------------------------------------------------
MaxChunks == 4

Chunks ==
    { <<118>>,                      \* SID alone
      <<0>>, <<255>>,               \* filler / TREP 0x00 / unknown TREP
      <<118, 33>>,                  \* Gen2 Overview segment start
      <<118, 36>>,                  \* Gen2 Detailed speed segment start
      <<23, 0, 0, 0, 0>>,           \* record array 0x17, no records
      <<8, 0, 0, 0, 0>>,            \* signature record array, no records
      <<2, 0, 0, 0, 1>>,            \* record array 0x02, one record of size 0
      <<8, 0, 1, 0, 1>>,            \* signature record array, one 1-byte record
      <<0, 2, 0, 0, 25, 0>> }       \* pinned driver-card prefix

RECURSIVE Flatten(_)
Flatten(chunks) ==
    IF chunks = << >> THEN << >> ELSE Head(chunks) \o Flatten(Tail(chunks))

ChunkSeqs == UNION {[1..n -> Chunks] : n \in 0..MaxChunks}

\* S3 of the specification: 76 21, 0A 00 01 00 00, 08 00 40 00 01, 0x40 zeros
ScenarioS3 ==
    <<118, 33, 10, 0, 1, 0, 0, 8, 0, 64, 0, 1>> \o [i \in 1..64 |-> 0]

Scenarios == { ScenarioS3 }

Inputs == {Flatten(c) : c \in ChunkSeqs} \cup Scenarios

\* Headers.  Every SID+TREP pair followed by at most MaxPad bytes, the SID
\* alone, single bytes, and the pinned prefixes whole, cut short, altered in
\* one byte, and followed by a byte.
MaxPad == 3

HeaderPads == UNION {[1..n -> {0, 1}] : n \in 0..MaxPad}

PinnedPrefixes == DRIVER_CARD_SIGNATURES \cup VU_SIGNATURES

HeaderInputs ==
    {<<TRANSFER_DATA_POSITIVE_RESPONSE_SID, t>> \o pad : t \in 0..255, pad \in HeaderPads}
    \cup {<<b>> : b \in {0, 1, TRANSFER_DATA_POSITIVE_RESPONSE_SID, 255}}
    \cup {SubSeq(sig, 1, n) : sig \in PinnedPrefixes, n \in 1..6}
    \cup {[sig EXCEPT ![k] = 9] : sig \in PinnedPrefixes, k \in 1..6}
    \cup {sig \o <<b>> : sig \in PinnedPrefixes, b \in {0, 255}}

\* Gen2 segments.  A head (SID, TREP and the leading record arrays of the
\* TREP's sequence) followed by at most MaxTail pieces drawn from TailChunks;
\* heads cut short or holding a record array of a foreign type; and the files
\* of at most two Chunks.
MaxTail == 3

\* The record arrays of sequence[1..n], each without records
EmptyArrays(sequence, n) ==
    Flatten([i \in 1..n |-> <<CHOOSE t \in sequence[i] : TRUE, 0, 0, 0, 0>>])

Gen2Heads ==
    {<<118, t>> \o EmptyArrays(GEN2_TREP_SEQUENCES[t], Len(GEN2_TREP_SEQUENCES[t]) - 1)
        : t \in {50, 53}}
    \cup { <<118, 36, 23, 0, 2, 0, 2, 1, 2, 3, 4>> }    \* 0x24, two 2-byte speed records

BrokenGen2Heads ==
    {<<118, t>> \o EmptyArrays(GEN2_TREP_SEQUENCES[t], n) : t \in {50, 53}, n \in 0..6}
    \cup {<<118, t>> \o [EmptyArrays(GEN2_TREP_SEQUENCES[t], 7) EXCEPT ![5 * k + 1] = 99]
             : t \in {50, 53}, k \in 0..6}

TailChunks ==
    { <<8, 0, 0, 0, 0>>,                        \* signature array, no records
      <<8, 0, 1, 0, 1, 170>>,                   \* signature array, one 1-byte record
      <<8, 0, 2, 0, 1, 0>>,                     \* signature array short of one byte
      <<40, 0, 2, 0, 3, 1, 2, 3, 4, 5, 6>>,     \* extension array, three 2-byte records
      <<1, 0, 0, 0, 0>>,                        \* record array 0x01, no records
      <<0>>, <<118>>,                           \* filler, SID alone
      <<118, 36, 23, 0, 0, 0, 0, 8, 0, 0, 0, 0>> }  \* a whole Detailed speed segment

TailSeqs == UNION {[1..n -> TailChunks] : n \in 0..MaxTail}

CoreInputs == {Flatten(c) : c \in UNION {[1..n -> Chunks] : n \in 0..2}}

Gen2Inputs ==
    CoreInputs
    \cup {h \o Flatten(t) : h \in Gen2Heads, t \in TailSeqs}
    \cup {h \o t : h \in BrokenGen2Heads, t \in TailChunks \cup {<< >>}}

\* Activity days.  A Gen2 Activities segment (TREP 0x22) holding a date
\* record and a change array of at most MaxChanges words drawn from
\* ChangeWords, laid out in the order of GEN2_ACTIVITIES_SEQUENCE.
MaxChanges == 3

ChangeWords ==
    { 0,        \* 0x0000  slot 0, activity 0, minute 0
      2558,     \* 0x09FE  slot 0, activity 1, minute 510
      4606,     \* 0x11FE  slot 0, activity 2, minute 510
      7044,     \* 0x1B84  slot 0, activity 3, minute 900
      1440,     \* 0x05A0  slot 0, activity 0, minute field 1440
      2047,     \* 0x07FF  slot 0, activity 0, minute field 2047
      39934,    \* 0x9BFE  slot 1, activity 3
      39422,    \* 0x99FE  slot 1, activity 3, minute 510
      41470 }   \* 0xA1FE  slot 1, card status 1, activity 0, minute 510

WordBytes(words) ==
    Flatten([i \in 1..Len(words) |-> <<words[i] \div 256, words[i] % 256>>])

ActivityDate == <<96, 0, 0, 0>>

ActivityFile(words) ==
    <<118, 34>> \o <<6, 0, 4, 0, 1>> \o ActivityDate
    \o <<5, 0, 0, 0, 0>> \o <<13, 0, 0, 0, 0>>
    \o <<1, 0, 2, 0, Len(words)>> \o WordBytes(words)
    \o <<28, 0, 0, 0, 0>> \o <<22, 0, 0, 0, 0>> \o <<9, 0, 0, 0, 0>> \o <<8, 0, 0, 0, 0>>

ChangeSeqs == UNION {[1..n -> ChangeWords] : n \in 0..MaxChanges}

ActivityInputs == CoreInputs \cup {ActivityFile(w) : w \in ChangeSeqs}

\* Events and faults.  A Gen2 Events and faults segment (TREP 0x23) laid out
\* in the order of GEN2_EVENTS_SEQUENCE, one of whose record arrays (faults,
\* events or overspeed events) holds at most MaxRecords records; each record
\* has one of its two TimeReal fields drawn from TimeReals and the other
\* within the window, or both below it.
MaxRecords == 1

TimeReals ==
    { TimeRealZero, <<0, 0, 0, 1>>, <<56, 109, 67, 127>>, TimeRealWindowLow,
      TimeRealWindowHigh, <<112, 219, 216, 129>>, TimeRealMax }

TimePairs ==
    {<<t, TimeRealWindowLow>> : t \in TimeReals}
    \cup {<<TimeRealWindowHigh, t>> : t \in TimeReals}
    \cup { << <<0, 0, 0, 1>>, <<0, 0, 0, 2>> >> }

Zeros(n) == [i \in 1..n |-> 0]

\* The record of the array type given, with the (begin, end) pair given
TimedRecord(record_type, pair) ==
    IF record_type = 27
    THEN <<7, 0>> \o pair[1] \o pair[2] \o <<90, 80>> \o Zeros(FULL_CARD_NUMBER_GEN2_LEN)
    ELSE <<1, 0>> \o pair[1] \o pair[2] \o Zeros(4 * FULL_CARD_NUMBER_GEN2_LEN)

RecordWidth(record_type) ==
    IF record_type = 27 THEN OVERSPEED_EVENT_LEN
    ELSE IF record_type = 24 THEN FAULT_RECORD_LEN ELSE EVENT_RECORD_LEN

\* The record array of the type given: its records if it is the chosen one
EventsArray(record_type, chosen, pairs) ==
    IF record_type = chosen
    THEN <<record_type, 0, RecordWidth(record_type), 0, Len(pairs)>>
         \o Flatten([i \in 1..Len(pairs) |-> TimedRecord(record_type, pairs[i])])
    ELSE <<record_type, 0, 0, 0, 0>>

EventsFile(chosen, pairs) ==
    <<118, 35>> \o EventsArray(24, chosen, pairs) \o EventsArray(21, chosen, pairs)
    \o <<26, 0, 0, 0, 0>> \o EventsArray(27, chosen, pairs)
    \o <<30, 0, 0, 0, 0>> \o <<8, 0, 0, 0, 0>>

PairSeqs == UNION {[1..n -> TimePairs] : n \in 0..MaxRecords}

EventsInputs ==
    CoreInputs \cup {EventsFile(chosen, p) : chosen \in {21, 24, 27}, p \in PairSeqs}

\* Driver cards.  Every card file opens with the EF ICC entry whose header is
\* the pinned driver-card prefix.  CertifiedCard holds the two Gen1
\* certificates that verify, and FlippedCards is CertifiedCard with one bit of
\* one certificate's data flipped.  The other card files hold at most
\* MaxEntries pieces drawn from EfPieces after the EF ICC entry, or are one
\* of the longer CardScenarios.
MaxEntries == 2

\* An EF entry: file id, appendix, length, and length bytes of data
EfEntry(file_id, appendix, length, fill) ==
    <<file_id \div 256, file_id % 256, appendix, length \div 256, length % 256>>
    \o [i \in 1..length |-> fill]

IccEntry == EfEntry(2, 0, 25, 0)

GenuineCaCert == [i \in 1..CARD_CERT_LEN |-> 17]
GenuineCardCert == [i \in 1..CARD_CERT_LEN |-> 34]

CertifiedCard ==
    IccEntry \o <<193, 8, 0, 0, CARD_CERT_LEN>> \o GenuineCaCert
             \o <<193, 0, 0, 0, CARD_CERT_LEN>> \o GenuineCardCert

\* The positions (from 1) of the data of the two certificates in CertifiedCard
CaCertPositions == (Len(IccEntry) + 5 + 1)..(Len(IccEntry) + 5 + CARD_CERT_LEN)
CardCertPositions ==
    (Len(IccEntry) + 10 + CARD_CERT_LEN + 1)..(Len(IccEntry) + 10 + 2 * CARD_CERT_LEN)

FlipBit(byte, bit) ==
    IF (byte \div (2 ^ bit)) % 2 = 1 THEN byte - 2 ^ bit ELSE byte + 2 ^ bit

FlippedCards ==
    {[CertifiedCard EXCEPT ![pos] = FlipBit(@, bit)] :
        pos \in CaCertPositions \cup CardCertPositions, bit \in 0..7}

EfPieces ==
    { EfEntry(1282, 0, 1, 0),       \* Events, Gen1 data
      EfEntry(1282, 1, 128, 0),     \* Events, Gen1 signature
      EfEntry(1282, 1, 5, 0),       \* Events, Gen1 signature of length 5
      EfEntry(1282, 2, 1, 0),       \* Events, Gen2 data
      EfEntry(1282, 3, 64, 0),      \* Events, Gen2 signature
      EfEntry(5, 0, 0, 0),          \* IC identification, Gen1 data of length 0
      EfEntry(5, 2, 1, 0),          \* IC identification, Gen2 data
      EfEntry(49416, 0, CARD_CERT_LEN, 0),  \* a CA certificate that does not verify
      EfEntry(49408, 0, CARD_CERT_LEN, 0),  \* a card certificate that does not verify
      EfEntry(49408, 2, CARD_CERT_LEN, 0),  \* card certificate file id, Gen2 appendix
      <<5, 2, 0, 0, 9, 1>>,         \* an entry declaring 9 bytes and holding 1
      <<0>> }                       \* one byte

PieceSeqs == UNION {[1..n -> EfPieces] : n \in 0..MaxEntries}

\* Driver activity (range rule 5548..13780) at and around both ends
RangeCards ==
    {IccEntry \o EfEntry(1284, 0, n, 0) \o EfEntry(1284, 1, 128, 0)
        : n \in {5547, 5548, 13780, 13781}}

\* Cards with more entries: a part valid through Gen2 alone beside an
\* invalid and a missing part; both schemes present with the Gen1 signature
\* of the wrong length; a duplicate data entry
CardScenarios ==
    { IccEntry \o EfEntry(5, 0, 0, 0) \o EfEntry(5, 2, 1, 0) \o EfEntry(1282, 0, 1, 0),
      IccEntry \o EfEntry(1282, 0, 1, 0) \o EfEntry(1282, 1, 5, 0)
               \o EfEntry(1282, 2, 1, 0) \o EfEntry(1282, 3, 64, 0),
      IccEntry \o EfEntry(1282, 0, 1, 0) \o EfEntry(1282, 1, 128, 0)
               \o EfEntry(1282, 0, 0, 0) }

\* Cards holding entries whose file id (0x1234) is no known card file id,
\* under each appendix value 0..3 and one outside the schemes, alone, beside
\* an Events entry on either side, and before a truncated entry
UnknownPieces == {EfEntry(4660, appendix, 1, 0) : appendix \in {0, 1, 2, 3, 7}}

UnknownCards ==
    {IccEntry \o before \o u \o after :
        u \in UnknownPieces,
        before \in {<< >>, EfEntry(1282, 0, 1, 0)},
        after \in {<< >>, EfEntry(1282, 1, 128, 0), <<5, 2, 0, 0, 9, 1>>}}

\* Times a card record may hold: none, the first second of the window (year
\* 2000), one before the window (1970) and the largest value, after it
CardTimes == {TimeRealZero, TimeRealWindowLow, <<1, 1, 1, 1>>, TimeRealMax}

\* A card application identification entry (0x0501, Gen1 data) of type 1
\* holding the three record counts
CardAppEntry(events_per_type, faults_per_type, vehicle_records) ==
    <<5, 1, 0, 0, 10>>
    \o <<1, 0, 0, events_per_type, faults_per_type, 0, 0, 0, vehicle_records, 0>>

\* Cards whose segment 0x120D, read from offset 6, holds one 24-byte record
\* of event type 1 with each pair of times, followed by the application
\* identification with each combination of events and faults per type
EventCards ==
    {<<0, 2, 0, 0, 25, 0>> \o <<18, 13, 0, 25>>
        \o <<1>> \o begin \o end \o <<0, 0>> \o [i \in 1..13 |-> 0] \o <<0>>
        \o CardAppEntry(events_per_type, faults_per_type, 0) :
        begin \in CardTimes, end \in CardTimes,
        events_per_type \in {0, 1}, faults_per_type \in {0, 1, 2}}

\* A 31-byte vehicle-used record with the two times
VehicleRecord(first_use, last_use) ==
    <<0, 0, 1, 0, 0, 2>> \o first_use \o last_use \o <<0>> \o [i \in 1..16 |-> 0]

\* Cards whose vehicles-used file (0x0505, Gen1 data) holds one or two
\* records, with the application identification absent or allowing one record
VehicleCards ==
    {IccEntry \o card_app
        \o <<5, 5, 0, 0, 2 + 31 * count, 0, 0>>
        \o VehicleRecord(first_use, last_use)
        \o (IF count = 2 THEN VehicleRecord(last_use, first_use) ELSE << >>) :
        first_use \in CardTimes, last_use \in CardTimes, count \in {1, 2},
        card_app \in {<< >>, CardAppEntry(0, 0, 1)}}

\* A 5-byte specific-condition record
ConditionRecord(condition_type, time) == <<condition_type>> \o time

\* Cards whose segment 0x4420, read from offset 6, holds three 5-byte records,
\* each of a condition type inside or outside 1..4 with a time inside or
\* outside the window
ConditionPieces ==
    {ConditionRecord(1, TimeRealWindowLow), ConditionRecord(4, TimeRealWindowHigh),
     ConditionRecord(1, <<1, 1, 1, 1>>), ConditionRecord(0, TimeRealWindowLow)}

ConditionCards ==
    {<<0, 2, 0, 0, 25, 0>> \o <<68, 32, 0, 15>> \o a \o b \o c \o [i \in 1..5 |-> 0] :
        a \in ConditionPieces, b \in ConditionPieces, c \in ConditionPieces}

CardInputs ==
    CoreInputs \cup {CertifiedCard} \cup FlippedCards \cup RangeCards \cup CardScenarios
    \cup UnknownCards \cup EventCards \cup VehicleCards \cup ConditionCards
    \cup {IccEntry \o Flatten(p) : p \in PieceSeqs}

\* The certificates that verify: rsa.ca holds the signed bytes (signature and
\* CNdash) of the certificates whose recovered digest matches under the
\* European root key, rsa.card those matching under the member-state key of
\* GenuineCaCert.  No other byte string verifies.
Verifying ==
    [ca |-> {Slice(GenuineCaCert, 0, CERT_SIGNED_LEN)},
     card |-> {Slice(GenuineCardCert, 0, CERT_SIGNED_LEN)}]

\* ------------------------------------------------------------------------
\* ByteReader (ddd_binary.py).  A reader is [data, offset]; the outcome of a
\* method is [reader, exc, val]: the reader after the call, the exception
\* raised ("none" when the method returns) and the value returned.
\* ------------------------------------------------------------------------
NewByteReader(d) == [data |-> d, offset |-> 0]

\* ByteReader.seek without the range test
SeekUnchecked(r, offset) ==
    [reader |-> [r EXCEPT !.offset = offset], exc |-> "none", val |-> NoneVal]

Seek(r, offset) ==
    IF offset < 0 \/ offset > Len(r.data)
    THEN [reader |-> r, exc |-> "ValueError", val |-> NoneVal]
    ELSE [reader |-> [r EXCEPT !.offset = offset], exc |-> "none", val |-> NoneVal]

Skip(r, count) == Seek(r, r.offset + count)

\* data[a:b] of Python for 0 <= a: the bounds are clipped to the data
PySlice(d, a, b) ==
    IF a >= Len(d) \/ b <= a THEN << >>
    ELSE SubSeq(d, a + 1, IF b > Len(d) THEN Len(d) ELSE b)

\* ByteReader.read_bytes without the test for the end of the data
ReadBytesUnchecked(r, count) ==
    IF count < 0 THEN [reader |-> r, exc |-> "ValueError", val |-> NoneVal]
    ELSE [reader |-> [r EXCEPT !.offset = r.offset + count], exc |-> "none",
          val |-> PySlice(r.data, r.offset, r.offset + count)]

ReadBytes(r, count) ==
    IF count < 0 THEN [reader |-> r, exc |-> "ValueError", val |-> NoneVal]
    ELSE IF r.offset + count > Len(r.data)
    THEN [reader |-> r, exc |-> "ValueError", val |-> NoneVal]
    ELSE [reader |-> [r EXCEPT !.offset = r.offset + count], exc |-> "none",
          val |-> PySlice(r.data, r.offset, r.offset + count)]

\* ByteReader.peek_bytes moving the reader as read_bytes does
PeekBytesAdvancing(r, count) == ReadBytes(r, count)

PeekBytes(r, count) ==
    IF count < 0 THEN [reader |-> r, exc |-> "ValueError", val |-> NoneVal]
    ELSE IF r.offset + count > Len(r.data)
    THEN [reader |-> r, exc |-> "ValueError", val |-> NoneVal]
    ELSE [reader |-> r, exc |-> "none",
          val |-> PySlice(r.data, r.offset, r.offset + count)]

Reversed(b) == [i \in 1..Len(b) |-> b[Len(b) + 1 - i]]

\* ByteReader._read_int: int.from_bytes of the bytes read.  The integer is
\* kept as its bytes from the most significant to the least significant.
ReadInt(r, length, endian) ==
    LET got == ReadBytes(r, length)
    IN  IF got.exc # "none" THEN got
        ELSE [got EXCEPT !.val = IF endian = "big" THEN @ ELSE Reversed(@)]

\* ByteReader inputs: readers over at most MaxReaderLen bytes, and the
\* offsets and counts given to their methods, from one below to one above
\* what the data admits
MaxReaderLen == 4

ReaderData == UNION {[1..n -> {1, 2}] : n \in 0..MaxReaderLen}

ReaderArgs == (0 - 1)..(MaxReaderLen + 1)

\* read_u8, read_u16_be, read_u16_le, read_u24_be, read_u32_be, read_u32_le
ReadIntCalls ==
    { <<1, "big">>, <<2, "big">>, <<2, "little">>, <<3, "big">>,
      <<4, "big">>, <<4, "little">> }

\* ------------------------------------------------------------------------
\* State
\* ------------------------------------------------------------------------
VARIABLES
    data,               \* the bytes of the file given to parse_summary
    rsa,                \* the certificates for which the RSA/SHA-1 checks succeed
    pc,                 \* position in parse_summary / _validate_parts
    header,             \* DddHeader, << >> before it is built
    offset,             \* reader.offset of the VU stream walker
    stats,              \* per-part {count, invalid, notes} of the walker
    walked,             \* the segments the walker dispatched: offset, TREP, verdicts,
                        \* reader offset after the validator
    parts,              \* tuple of DddPart, << >> before it is built
    driver_card,        \* the locals of parse_summary, in assignment order
    vu_identification,
    overview,
    activity_days,
    events_faults,
    result,             \* "running", "summary" or the exception that escaped
    reader,             \* a ByteReader under test: its data and offset
    last_call           \* the last method called on reader, with its outcome

vars == << data, rsa, pc, header, offset, stats, walked, parts, driver_card,
           vu_identification, overview, activity_days, events_faults, result,
           reader, last_call >>

reader_vars == << reader, last_call >>

walker_vars == << offset, stats, walked >>
decoded_vars == << driver_card, vu_identification, overview, activity_days, events_faults >>

InitWith(inputs) ==
    /\ data \in inputs
    /\ rsa = Verifying
    /\ pc = "parse_header"
    /\ header = NoneVal
    /\ offset = 0
    /\ stats = InitialStats
    /\ walked = << >>
    /\ parts = << >>
    /\ driver_card = NoneVal
    /\ vu_identification = NoneVal
    /\ overview = NoneVal
    /\ activity_days = << >>
    /\ events_faults = EmptyEventsFaults
    /\ result = "running"
    /\ reader = NewByteReader(<< >>)
    /\ last_call = NoneVal

Init == InitWith(Inputs)

HeaderInit == InitWith(HeaderInputs)

\* An exception leaves parse_summary: no DddSummary is returned.
Raise(exc) == pc' = "done" /\ result' = exc

\* parse_summary line 269: header = _parse_header_bytes(data[:32], len(data))
ParseHeader ==
    /\ pc = "parse_header"
    /\ \E hdr \in {Slice(data, 0, HEADER_READ_LEN)} :
           IF hdr = << >>
           THEN Raise("ValueError") /\ UNCHANGED header
           ELSE /\ header' = ParseHeaderBytes(hdr, Len(data))
                /\ pc' = "validate_parts"
                /\ UNCHANGED result
    /\ UNCHANGED << data, rsa, reader_vars, walker_vars, parts, decoded_vars >>

\* _validate_parts lines 410-411: a driver card
ValidateCard ==
    /\ pc = "validate_parts"
    /\ header.detected_type = "driver_card"
    /\ parts' = ValidateDriverCardParts(data, rsa)
    /\ pc' = "parse_driver_card"
    /\ UNCHANGED << data, rsa, reader_vars, header, walker_vars, decoded_vars, result >>

\* _validate_parts lines 413-422: neither a driver card nor a VU file
ValidateUnknown ==
    /\ pc = "validate_parts"
    /\ header.detected_type \notin {"driver_card", "vehicle_unit"}
    /\ parts' = NotApplicableParts(header.detected_type)
    /\ pc' = "parse_driver_card"
    /\ UNCHANGED << data, rsa, reader_vars, header, walker_vars, decoded_vars, result >>

\* _validate_parts lines 424-429: a VU file; the walker starts at offset 0
StartWalk ==
    /\ pc = "validate_parts"
    /\ header.detected_type = "vehicle_unit"
    /\ stats' = InitialStats
    /\ offset' = 0
    /\ pc' = "walk"
    /\ UNCHANGED << data, rsa, reader_vars, header, walked, parts, decoded_vars, result >>

\* One iteration of the walker loop (lines 430-464)
WalkStep ==
    /\ pc = "walk"
    /\ Len(data) - offset > 0
    /\ \E it \in {WalkIteration(data, offset, stats)} :
           /\ stats' = it.stats
           /\ offset' = it.off
           /\ walked' = IF it.trep # NoByte
                        THEN Append(walked, [off |-> offset, trep |-> it.trep,
                                             structure_ok |-> it.structure_ok, ok |-> it.ok,
                                             end |-> it.end])
                        ELSE walked
           /\ pc' = IF it.stop THEN "build_parts" ELSE "walk"
    /\ UNCHANGED << data, rsa, reader_vars, header, parts, decoded_vars, result >>

\* The loop has ended (its condition is false, or a break): lines 466-478
FinishWalk ==
    /\ \/ pc = "build_parts"
       \/ pc = "walk" /\ Len(data) - offset = 0
    /\ parts' = BuildParts(stats)
    /\ pc' = "parse_driver_card"
    /\ UNCHANGED << data, rsa, reader_vars, header, walker_vars, decoded_vars, result >>

\* parse_summary lines 271-277: the decoders, in order
DecodeDriverCard ==
    /\ pc = "parse_driver_card"
    /\ \E r \in {ParseDriverCardSummary(data, header)} :
           IF r.exc # "none" THEN Raise(r.exc) /\ UNCHANGED driver_card
           ELSE driver_card' = r.val /\ pc' = "parse_vu_identification" /\ UNCHANGED result
    /\ UNCHANGED << data, rsa, reader_vars, header, walker_vars, parts, vu_identification, overview,
                    activity_days, events_faults >>

DecodeVuIdentification ==
    /\ pc = "parse_vu_identification"
    /\ \E r \in {ParseVuIdentification(data, header)} :
           IF r.exc # "none" THEN Raise(r.exc) /\ UNCHANGED vu_identification
           ELSE vu_identification' = r.val /\ pc' = "parse_overview" /\ UNCHANGED result
    /\ UNCHANGED << data, rsa, reader_vars, header, walker_vars, parts, driver_card, overview,
                    activity_days, events_faults >>

DecodeOverview ==
    /\ pc = "parse_overview"
    /\ \E r \in {ParseOverview(data, header)} :
           IF r.exc # "none" THEN Raise(r.exc) /\ UNCHANGED overview
           ELSE overview' = r.val /\ pc' = "parse_activities" /\ UNCHANGED result
    /\ UNCHANGED << data, rsa, reader_vars, header, walker_vars, parts, driver_card, vu_identification,
                    activity_days, events_faults >>

DecodeActivities ==
    /\ pc = "parse_activities"
    /\ \E r \in {ParseActivities(data, header)} :
           IF r.exc # "none" THEN Raise(r.exc) /\ UNCHANGED activity_days
           ELSE activity_days' = r.val /\ pc' = "parse_events_faults" /\ UNCHANGED result
    /\ UNCHANGED << data, rsa, reader_vars, header, walker_vars, parts, driver_card, vu_identification,
                    overview, events_faults >>

\* Lines 275-289: the last decoder, then the DddSummary is returned
DecodeEventsFaults ==
    /\ pc = "parse_events_faults"
    /\ \E r \in {ParseEventsFaults(data, header)} :
           IF r.exc # "none" THEN Raise(r.exc) /\ UNCHANGED events_faults
           ELSE events_faults' = r.val /\ pc' = "done" /\ result' = "summary"
    /\ UNCHANGED << data, rsa, reader_vars, header, walker_vars, parts, driver_card, vu_identification,
                    overview, activity_days >>

Next ==
    \/ ParseHeader
    \/ ValidateCard
    \/ ValidateUnknown
    \/ StartWalk
    \/ WalkStep
    \/ FinishWalk
    \/ DecodeDriverCard
    \/ DecodeVuIdentification
    \/ DecodeOverview
    \/ DecodeActivities
    \/ DecodeEventsFaults

Spec == Init /\ [][Next]_vars

\* parse_summary run on the header inputs
HeaderSpec == HeaderInit /\ [][Next]_vars

\* parse_summary run on the Gen2 segment inputs
Gen2Init == InitWith(Gen2Inputs)

Gen2Spec == Gen2Init /\ [][Next]_vars

\* parse_summary run on the activity-day inputs
ActivityInit == InitWith(ActivityInputs)

ActivitySpec == ActivityInit /\ [][Next]_vars

\* parse_summary run on the events-and-faults inputs
EventsInit == InitWith(EventsInputs)

EventsSpec == EventsInit /\ [][Next]_vars

\* parse_summary run on the driver-card inputs
CardInit == InitWith(CardInputs)

CardSpec == CardInit /\ [][Next]_vars

\* ------------------------------------------------------------------------
\* A ByteReader driven by an arbitrary caller: any method, any argument
\* ------------------------------------------------------------------------
ReaderInit ==
    /\ data = << >>
    /\ rsa = Verifying
    /\ pc = "byte_reader"
    /\ header = NoneVal
    /\ offset = 0
    /\ stats = InitialStats
    /\ walked = << >>
    /\ parts = << >>
    /\ driver_card = NoneVal
    /\ vu_identification = NoneVal
    /\ overview = NoneVal
    /\ activity_days = << >>
    /\ events_faults = EmptyEventsFaults
    /\ result = "running"
    /\ reader \in {NewByteReader(d) : d \in ReaderData}
    /\ last_call = NoneVal

parse_vars == << data, rsa, pc, header, offset, stats, walked, parts, driver_card,
                 vu_identification, overview, activity_days, events_faults, result >>

\* The call has returned or raised: the reader is as the method left it
Called(op, arg, endian, out) ==
    /\ reader' = out.reader
    /\ last_call' = << [op |-> op, arg |-> arg, endian |-> endian,
                        before |-> reader.offset, exc |-> out.exc, val |-> out.val] >>
    /\ UNCHANGED parse_vars

CallSeek ==
    pc = "byte_reader" /\ \E o \in ReaderArgs : Called("seek", o, NoneStr, Seek(reader, o))

CallSkip ==
    pc = "byte_reader" /\ \E n \in ReaderArgs : Called("skip", n, NoneStr, Skip(reader, n))

CallReadBytes ==
    pc = "byte_reader"
    /\ \E n \in ReaderArgs : Called("read_bytes", n, NoneStr, ReadBytes(reader, n))

CallPeekBytes ==
    pc = "byte_reader"
    /\ \E n \in ReaderArgs : Called("peek_bytes", n, NoneStr, PeekBytes(reader, n))

CallReadInt ==
    pc = "byte_reader"
    /\ \E c \in ReadIntCalls : Called("read_int", c[1], c[2], ReadInt(reader, c[1], c[2]))

ReaderNext ==
    \/ CallSeek
    \/ CallSkip
    \/ CallReadBytes
    \/ CallPeekBytes
    \/ CallReadInt

ReaderSpec == ReaderInit /\ [][ReaderNext]_vars

\* ------------------------------------------------------------------------
\* Properties
\* ------------------------------------------------------------------------
Returned == pc = "done" /\ result = "summary"

PartStatus(name) ==
    LET i == CHOOSE k \in 1..Len(parts) : parts[k].name = name IN parts[i].status

AllNotApplicable == \A i \in 1..Len(parts) : parts[i].status = "not_applicable"

NothingDecoded ==
    /\ vu_identification = NoneVal
    /\ overview = NoneVal
    /\ activity_days = << >>
    /\ events_faults = EmptyEventsFaults
    /\ driver_card = NoneVal

\* C1: for every input, parse_summary returns a DddSummary and no exception
\* escapes the call.  Stated as: whenever the call has ended, it has ended
\* by returning the summary.
C1_NoExceptionEscapes == pc = "done" => result = "summary"

\* C2: every iteration of the walker loop that does not stop the walk leaves
\* the reader at a strictly greater offset, within the data, than where the
\* iteration began; this includes the iterations that end in a resync.
C2_WalkerAdvances ==
    [][(pc = "walk" /\ pc' = "walk") => (offset < offset' /\ offset' <= Len(data))]_vars

\* C2 witness: the walk goes on after a segment was rejected and the reader
\* resynchronised to a later segment start.
C2_ResyncContinues ==
    /\ pc = "walk"
    /\ walked # << >>
    /\ ~walked[Len(walked)].ok
    /\ offset > walked[Len(walked)].off
    /\ Len(data) - offset > 0

\* C3: for the empty input, parsing yields a result whose header has
\* is_valid false and invalid_reason "Header (empty)" and whose driver_card
\* is None.
C3_EmptyInputSummary ==
    (data = << >> /\ pc = "done") =>
        /\ result = "summary"
        /\ header # NoneVal
        /\ ~header.is_valid
        /\ header.invalid_reason = <<"Header (empty)">>
        /\ driver_card = NoneVal

GenerationHint(trep) ==
    CASE trep \in 1..5 -> "gen1"
      [] trep \in {33, 34, 35, 37} -> "gen2_v1"
      [] trep = 36 -> "gen2_v1_or_v2"
      [] trep \in {0, 49, 50, 51, 53} -> "gen2_v2"
      [] OTHER -> NoneStr

SidAndTrep == Len(data) >= 2 /\ data[1] = 118

\* C5: for every header whose first byte is 0x76 and that has a second byte
\* trep, the generation hint is gen1 for 0x01..0x05, gen2_v1 for 0x21, 0x22,
\* 0x23, 0x25, gen2_v1_or_v2 for 0x24, gen2_v2 for 0x00, 0x31, 0x32, 0x33,
\* 0x35, and none (detected generation unknown) for every other value.
C5_GenerationMapping ==
    (header # NoneVal /\ SidAndTrep) =>
        /\ header.trep = data[2]
        /\ header.trep_generation = GenerationHint(data[2])
        /\ header.detected_generation =
               (IF GenerationHint(data[2]) = NoneStr THEN "unknown"
                ELSE GenerationHint(data[2]))

\* C5 witness: the header of a file starting 76 24 has been classified
C5_AmbiguousTrepClassified ==
    /\ header # NoneVal
    /\ SidAndTrep
    /\ data[2] = 36
    /\ header.trep_generation = "gen2_v1_or_v2"

\* (a) of C6: SID, a TREP of a known generation and, for TREP 0x00, at least
\* four header bytes
RecognisedPair ==
    /\ SidAndTrep
    /\ GenerationHint(data[2]) # NoneStr
    /\ (data[2] = 0 => Len(data) >= 4)

\* (b) of C6: the first six bytes are a pinned prefix
PinnedPrefixMatch ==
    Len(data) >= 6 /\ SubSeq(data, 1, 6) \in {<<0, 2, 0, 0, 25, 0>>, <<118, 33, 4, 0, 205, 0>>}

\* C6: for every non-empty header, is_valid is true exactly when (a) or (b)
\* holds, and in every other case invalid_reason is set.
C6_HeaderValidity ==
    header # NoneVal =>
        /\ header.is_valid <=> (RecognisedPair \/ PinnedPrefixMatch)
        /\ ~header.is_valid => header.invalid_reason # NoneVal
        /\ header.is_valid => header.invalid_reason = NoneVal

\* C6 witness: TREP 0x00 with only three header bytes has been rejected
C6_ShortVersionHeaderRejected ==
    /\ header # NoneVal
    /\ SidAndTrep
    /\ data[2] = 0
    /\ Len(data) = 3
    /\ ~header.is_valid
    /\ header.invalid_reason = <<"Header (download interface version missing)">>

VuPartsBuilt == parts # << >> /\ header.detected_type = "vehicle_unit"

\* The status that C7 derives from a part's counters
StatusFromCounters(stat) ==
    IF stat.invalid > 0 THEN "invalid"
    ELSE IF stat.count = 0 THEN "missing"
    ELSE "valid"

\* C7: after the walker has finished on a VU file, each part's status is
\* Invalid if its invalid counter is positive, otherwise Missing if its count
\* is zero, otherwise Valid.
C7_StatusFromCounters ==
    VuPartsBuilt =>
        \A i \in 1..Len(parts) :
            parts[i].status = StatusFromCounters(stats[PartStatName(parts[i].name)])

\* C7 witness: the walker has finished with an invalid, a valid and a
\* missing part
C7_AllStatusesReported ==
    /\ VuPartsBuilt
    /\ \E i, j, k \in 1..Len(parts) :
          /\ parts[i].status = "invalid" /\ stats[PartStatName(parts[i].name)].invalid > 0
          /\ parts[j].status = "valid" /\ stats[PartStatName(parts[j].name)].count > 0
          /\ parts[k].status = "missing"

SumCounts ==
    stats["Overview"].count + stats["Activities"].count
    + stats["Events and faults"].count + stats["Detailed speed"].count
    + stats["Technical data"].count + stats["Company locks"].count
    + stats["Overspeeding"].count + stats["Faults"].count

\* The positions of 0x76 followed by a TREP of the table
SegmentStarts ==
    {i \in 1..(Len(data) - 1) :
        data[i] = 118 /\ data[i + 1] \in {0, 1, 2, 3, 4, 5, 33, 34, 35, 36, 37, 49, 50, 51, 53}}

\* C8: for any VU file, after the walker has finished, the sum of the
\* per-part segment counts is at most the number of positions where 0x76 is
\* immediately followed by a valid TREP.
C8_CountsBoundedByPairs == VuPartsBuilt => SumCounts <= Cardinality(SegmentStarts)

\* C9 as stated: the S3 input yields an Overview part with status Valid.
C9_ScenarioOverviewValid ==
    (data = ScenarioS3 /\ parts # << >>) => PartStatus("Overview") = "valid"

\* C9 as amended: the S3 input yields an Overview part with status Invalid.
C9_ScenarioOverviewInvalid ==
    (data = ScenarioS3 /\ parts # << >>) => PartStatus("Overview") = "invalid"

\* C9 witness: the summary of the S3 input has been returned
C9_ScenarioReturned ==
    /\ data = ScenarioS3
    /\ Returned
    /\ PartStatus("Overview") = "invalid"
    /\ stats["Overview"].notes = << <<"Unexpected record 0x%02X", 10>> >>

\* The triple at offset p lies within d, payload included
TripleContained(d, p) ==
    /\ Len(d) - p >= 5
    /\ Len(d) - (p + 5) >= RecordTotal(U16BE(d, p + 1), U16BE(d, p + 3), Len(d))

\* From position i on, each triple is contained and of an allowed type, the
\* i-th triple starting at p and each next one where the previous ends
RECURSIVE TriplesConform(_, _, _, _)
TriplesConform(d, p, sequence, i) ==
    \/ i > Len(sequence)
    \/ /\ TripleContained(d, p)
       /\ At(d, p) \in sequence[i]
       /\ TriplesConform(d, p + 5 + U16BE(d, p + 1) * U16BE(d, p + 3), sequence, i + 1)

PlainGen2Treps == {33, 34, 35, 36, 37, 49, 51}

\* C10: for a Gen2 segment whose TREP is not 0x32 or 0x35, the structural
\* validator accepts the segment exactly when, for every position i of the
\* TREP's sequence, the i-th triple is contained in the remaining bytes and
\* has a type of the i-th allowed set; a segment that does not conform makes
\* its part Invalid.
C10_Gen2SequenceConformance ==
    \A i \in 1..Len(walked) :
        walked[i].trep \in PlainGen2Treps =>
            LET conform == TriplesConform(data, walked[i].off + 2,
                               GetGen2Sequence(walked[i].trep,
                                               DetectTrepGeneration(walked[i].trep)), 1)
            IN  /\ walked[i].structure_ok <=> conform
                /\ (~conform /\ parts # << >>) =>
                       PartStatus(TREP_DATA_TYPES[walked[i].trep]) = "invalid"

\* C10 witness: the walker has accepted one Gen2 segment, whose triples
\* conform, and rejected a later one of the same file
C10_AcceptedAndRejected ==
    \E i, j \in 1..Len(walked) :
        /\ i < j
        /\ walked[i].trep \in PlainGen2Treps
        /\ walked[i].structure_ok
        /\ walked[j].trep \in PlainGen2Treps
        /\ ~walked[j].structure_ok

\* The offset after n triples laid end to end from p
RECURSIVE TriplesEnd(_, _, _)
TriplesEnd(d, p, n) ==
    IF n = 0 THEN p
    ELSE TriplesEnd(d, p + 5 + U16BE(d, p + 1) * U16BE(d, p + 3), n - 1)

\* The offset after the first type-0x08 triple of the chain of contained
\* triples that starts at p; -1 if the chain ends before one
RECURSIVE FirstSignatureEnd(_, _)
FirstSignatureEnd(d, p) ==
    IF ~TripleContained(d, p) THEN -1
    ELSE IF At(d, p) = 8 THEN p + 5 + U16BE(d, p + 1) * U16BE(d, p + 3)
    ELSE FirstSignatureEnd(d, p + 5 + U16BE(d, p + 1) * U16BE(d, p + 3))

ExtrasTreps == {50, 53}

\* The sequence of the TREP without its final signature entry
Prologue(trep) ==
    SubSeq(GEN2_TREP_SEQUENCES[trep], 1, Len(GEN2_TREP_SEQUENCES[trep]) - 1)

\* C11: for a segment with TREP 0x32 or 0x35 whose prologue triples have been
\* read in order, the validator reads on through triples of any type and
\* returns success right after the first type-0x08 triple; if the bytes run
\* out before a type-0x08 triple has been read, the validator fails and the
\* part is Invalid.
C11_ExtrasUntilSignature ==
    \A i \in 1..Len(walked) :
        (/\ walked[i].trep \in ExtrasTreps
         /\ TriplesConform(data, walked[i].off + 2, Prologue(walked[i].trep), 1)) =>
            \E sig \in {FirstSignatureEnd(data,
                            TriplesEnd(data, walked[i].off + 2,
                                       Len(Prologue(walked[i].trep))))} :
                /\ sig >= 0 => walked[i].structure_ok /\ walked[i].end = sig
                /\ sig < 0 =>
                       /\ ~walked[i].structure_ok
                       /\ parts # << >> =>
                              PartStatus(TREP_DATA_TYPES[walked[i].trep]) = "invalid"

\* C11 witness: a 0x32 or 0x35 segment whose prologue is followed by a triple
\* that is not a signature has been accepted, and the parts are built
C11_ExtensionAccepted ==
    /\ parts # << >>
    /\ \E i \in 1..Len(walked) :
           /\ walked[i].trep \in ExtrasTreps
           /\ walked[i].structure_ok
           /\ TriplesConform(data, walked[i].off + 2, Prologue(walked[i].trep), 1)
           /\ At(data, TriplesEnd(data, walked[i].off + 2,
                                  Len(Prologue(walked[i].trep)))) # 8

Gen2Treps == DOMAIN GEN2_TREP_SEQUENCES

\* The sum of recordSize * recordCount over n triples laid end to end from p
RECURSIVE PayloadBytes(_, _, _)
PayloadBytes(d, p, n) ==
    IF n = 0 THEN 0
    ELSE U16BE(d, p + 1) * U16BE(d, p + 3)
         + PayloadBytes(d, p + 5 + U16BE(d, p + 1) * U16BE(d, p + 3), n - 1)

\* The number of triples from p up to and including the first of type 0x08
RECURSIVE TriplesToSignature(_, _)
TriplesToSignature(d, p) ==
    IF p >= Len(d) \/ At(d, p) = 8 THEN 1
    ELSE 1 + TriplesToSignature(d, p + 5 + U16BE(d, p + 1) * U16BE(d, p + 3))

\* The number of triples of an accepted Gen2 segment that starts at off
SegmentTriples(d, off, trep) ==
    IF trep \in ExtrasTreps
    THEN Len(Prologue(trep))
         + TriplesToSignature(d, TriplesEnd(d, off + 2, Len(Prologue(trep))))
    ELSE Len(GetGen2Sequence(trep, DetectTrepGeneration(trep)))

\* The bytes from the SID of the segment to the reader's offset after its
\* validator are sid_trep bytes, a 5-byte header per triple, and the payloads
SegmentLengthIs(w, sid_trep) ==
    \E n \in {SegmentTriples(data, w.off, w.trep)} :
        w.end - w.off = sid_trep + 5 * n + PayloadBytes(data, w.off + 2, n)

\* C12 (amended): for any Gen2 segment the structural validator accepts, the
\* sum of recordSize * recordCount across its triples, plus the 2 bytes of SID
\* and TREP, plus the 5-byte triple headers, equals the segment length from
\* the SID to where the validator stops; and each triple the record walker
\* reads successfully advances the cursor by exactly 5 + recordSize *
\* recordCount bytes.
C12_SegmentLength ==
    /\ \A i \in 1..Len(walked) :
           (walked[i].trep \in Gen2Treps /\ walked[i].structure_ok) =>
               SegmentLengthIs(walked[i], 2)
    /\ \A p \in 0..Len(data) :
           \E r \in {ReadGen2Record(data, p)} :
               r.ok => r.off - p = 5 + r.record_size * r.record_count

\* C12 as stated, with 3 bytes of SID/TREP: violated by every accepted Gen2
\* segment
C12_SegmentLengthThreeBytes ==
    \A i \in 1..Len(walked) :
        (walked[i].trep \in Gen2Treps /\ walked[i].structure_ok) =>
            SegmentLengthIs(walked[i], 3)

\* C12 witness: an accepted Gen2 segment holding records (a payload that is
\* not empty) in a file whose parts are built
C12_AcceptedWithPayload ==
    /\ parts # << >>
    /\ \E i \in 1..Len(walked) :
           /\ walked[i].trep \in Gen2Treps
           /\ walked[i].structure_ok
           /\ PayloadBytes(data, walked[i].off + 2,
                           SegmentTriples(data, walked[i].off, walked[i].trep)) > 0

\* C13: every ActivityChangeInfo decoded from a 16-bit word has
\* 0 <= minutes < 1440.
C13_MinutesWithinDay ==
    \A i \in 1..Len(activity_days) :
        \A k \in 1..Len(activity_days[i].changes) :
            /\ 0 <= activity_days[i].changes[k].minutes
            /\ activity_days[i].changes[k].minutes < MINUTES_PER_DAY

\* The segments of a day that belong to a slot, in output order
SegmentsOfSlot(day, slot) == SelectSeq(day.segments, LAMBDA g : g.slot = slot)

SegmentsTile(segs) ==
    /\ \A k \in 1..Len(segs) : segs[k].start_minute < segs[k].end_minute
    /\ \A k \in 2..Len(segs) : segs[k].start_minute = segs[k - 1].end_minute
    /\ segs # << >> => segs[Len(segs)].end_minute = MINUTES_PER_DAY

\* C14: for every ActivityDay and each slot, the segments of the slot in
\* output order have start < end, each starts where the previous one ended
\* (so they do not overlap), and the last one ends at 1440.
C14_SegmentsTileSlot ==
    \A i \in 1..Len(activity_days) :
        \A slot \in {0, 1} : SegmentsTile(SegmentsOfSlot(activity_days[i], slot))

DriverSegment(start) ==
    [date_raw |-> ActivityDate, slot |-> 1, start_minute |-> start,
     end_minute |-> MINUTES_PER_DAY, activity |-> 3, card_status |-> 0,
     driving_status |-> 0]

\* The day decoded from the file whose change array is the one word 0x9BFE
\* (39934)
\* has the one change slot 1, drivingStatus 0, cardStatus 0, activity 3 with
\* the given minute, and the one segment from that minute to 1440 on slot 1
SingleChangeDay(minutes) ==
    (data = ActivityFile(<<39934>>) /\ pc \in {"parse_events_faults", "done"}) =>
        /\ Len(activity_days) = 1
        /\ activity_days[1].changes =
               << [slot |-> 1, driving_status |-> 0, card_status |-> 0,
                   activity |-> 3, minutes |-> minutes] >>
        /\ activity_days[1].segments = << DriverSegment(minutes) >>

\* C15 (amended): decoding the big-endian word 0x9BFE yields slot 1,
\* drivingStatus 0, cardStatus 0, activity 3 and minutes 1022, and the day
\* built from that single change has the one segment [1022, 1440) on slot 1.
C15_WordDecoding == SingleChangeDay(1022)

\* C15 as stated: minutes 510 and the segment [510, 1440)
C15_WordDecodingAsStated == SingleChangeDay(510)

\* C15 witness: the file with the single change 0x9BFE has been decoded
C15_SingleChangeDecoded ==
    /\ data = ActivityFile(<<39934>>)
    /\ Returned
    /\ Len(activity_days) = 1

\* The positions of the changes of a day with the slot and the minute given
TiedChanges(day, slot, minute) ==
    {k \in 1..Len(day.changes) :
        day.changes[k].slot = slot /\ day.changes[k].minutes = minute}

\* C16: of the changes of one slot that carry the same minute, the one latest
\* in the input gives the segment starting at that minute its activity,
\* cardStatus and drivingStatus, and the earlier ones give no segment: a slot
\* has at most one segment per start minute.
C16_LatestChangeWins ==
    \A i \in 1..Len(activity_days) :
        \A a \in 1..Len(activity_days[i].segments) :
            \E g \in {activity_days[i].segments[a]} :
                /\ \E ties \in {TiedChanges(activity_days[i], g.slot, g.start_minute)} :
                       /\ ties # {}
                       /\ \E last \in ties :
                              /\ \A k \in ties : k <= last
                              /\ g.activity = activity_days[i].changes[last].activity
                              /\ g.card_status = activity_days[i].changes[last].card_status
                              /\ g.driving_status =
                                     activity_days[i].changes[last].driving_status
                /\ \A b \in 1..Len(activity_days[i].segments) :
                       (/\ activity_days[i].segments[b].slot = g.slot
                        /\ activity_days[i].segments[b].start_minute = g.start_minute)
                           => b = a

\* C16 witness: a decoded day in which two changes of one slot carry the same
\* minute and differ in activity or card status, and a segment starts there
C16_TieDecoded ==
    /\ Returned
    /\ \E i \in 1..Len(activity_days) :
           \E k, l \in 1..Len(activity_days[i].changes) :
               /\ k < l
               /\ activity_days[i].changes[k].slot = activity_days[i].changes[l].slot
               /\ activity_days[i].changes[k].minutes = activity_days[i].changes[l].minutes
               /\ \/ activity_days[i].changes[k].activity
                         # activity_days[i].changes[l].activity
                  \/ activity_days[i].changes[k].card_status
                         # activity_days[i].changes[l].card_status
               /\ \E a \in 1..Len(activity_days[i].segments) :
                      /\ activity_days[i].segments[a].slot = activity_days[i].changes[k].slot
                      /\ activity_days[i].segments[a].start_minute
                             = activity_days[i].changes[k].minutes

InTimeWindow(t) == TimeRealLeq(TimeRealWindowLow, t) /\ TimeRealLeq(t, TimeRealWindowHigh)

\* A reported time (raw or ISO) is reported only for a value within the window
ReportedWithinWindow(raw, iso) ==
    /\ raw # NoneVal => InTimeWindow(raw[1])
    /\ iso # NoneVal => raw # NoneVal /\ InTimeWindow(raw[1])

\* The begin and end times of a decoded record
RecordTimesWithinWindow(r) ==
    /\ ReportedWithinWindow(r.begin_time_raw, r.begin_time_iso)
    /\ ReportedWithinWindow(r.end_time_raw, r.end_time_iso)

\* C17: for every decoded VU event, fault and overspeed-event record, a begin
\* or end TimeReal outside [946684800, 1893456000] is reported absent (raw and
\* ISO both None).
C17_TimesOutsideWindowAbsent ==
    /\ \A i \in 1..Len(events_faults.events) :
           RecordTimesWithinWindow(events_faults.events[i])
    /\ \A i \in 1..Len(events_faults.faults) :
           RecordTimesWithinWindow(events_faults.faults[i])
    /\ \A i \in 1..Len(events_faults.overspeed_events) :
           RecordTimesWithinWindow(events_faults.overspeed_events[i])

CardPartsBuilt == parts # << >> /\ header.detected_type = "driver_card"

\* C18: for a driver card whose Gen1 CA certificate and card certificate both
\* verify, flipping any single bit of either certificate's data makes both the
\* "CA certificate" and the "Card certificate" parts Invalid.
C18_BitFlipInvalidatesBoth ==
    (data \in FlippedCards /\ parts # << >>) =>
        /\ PartStatus("CA certificate") = "invalid"
        /\ PartStatus("Card certificate") = "invalid"

\* The per-part length rule
LengthRuleHolds(length, rule) ==
    \/ rule[1] = "min" /\ length >= rule[2]
    \/ rule[1] = "range" /\ rule[2] <= length /\ length <= rule[3]

EntriesWithAppendix(entries, appendix) ==
    SelectSeq(entries, LAMBDA e : e.appendix = appendix)

\* A scheme is valid: data present with a length the rule admits and, where a
\* signature is required, a signature present with the scheme's length
SchemeValid(entries, requires_sig, rule, scheme) ==
    /\ EntriesWithAppendix(entries, CardAppendixScheme(scheme).data) # << >>
    /\ LengthRuleHolds(EntriesWithAppendix(entries, CardAppendixScheme(scheme).data)[1].length,
                       rule)
    /\ requires_sig =>
           /\ EntriesWithAppendix(entries, CardAppendixScheme(scheme).sig) # << >>
           /\ EntriesWithAppendix(entries, CardAppendixScheme(scheme).sig)[1].length
                  = CardAppendixScheme(scheme).sig_len

SchemeHasEntry(entries, scheme) ==
    \E k \in 1..Len(entries) :
        entries[k].appendix \in {CardAppendixScheme(scheme).data,
                                 CardAppendixScheme(scheme).sig}

\* Valid if a scheme of the part is valid, Missing if no scheme of the part
\* has a data or signature entry, Invalid otherwise
SchemeStatus(entries, def) ==
    IF \E k \in 1..Len(def[5]) : SchemeValid(entries, def[3], def[4], def[5][k])
    THEN "valid"
    ELSE IF \A k \in 1..Len(def[5]) : ~SchemeHasEntry(entries, def[5][k])
    THEN "missing"
    ELSE "invalid"

\* Of the entries of the walk, those with the file id given
FileEntries(entries, file_id) == SelectSeq(entries, LAMBDA e : e.file_id = file_id)

\* The first Gen1 data of the file id, << >> if there is none
FirstGen1Data(entries, file_id) ==
    IF EntriesWithAppendix(FileEntries(entries, file_id), 0) = << >> THEN << >>
    ELSE EntriesWithAppendix(FileEntries(entries, file_id), 0)[1].data

\* Both Gen1 certificates hold data and the chain check on them fails
ChainCheckFailed(entries) ==
    /\ FirstGen1Data(entries, 49416) # << >>
    /\ FirstGen1Data(entries, 49408) # << >>
    /\ ~VerifyDriverCardCertificates(FirstGen1Data(entries, 49416),
                                     FirstGen1Data(entries, 49408), rsa).ok

ChainParts == {49408, 49416}

\* C19 (amended): for every logical card part and the EF entries with its
\* file id, a scheme (Gen1: data appendix 0, signature appendix 1, length 128;
\* Gen2: data 2, signature 3, length 64) is valid iff its data entry is
\* present, the data length satisfies the part's min/range rule and, when a
\* signature is required, the signature entry is present with the expected
\* length; the part is Valid iff a scheme of the part is valid and, for the
\* "CA certificate" and "Card certificate" parts, the certificate chain check
\* has not failed; Missing iff no scheme of the part has a data or signature
\* entry; and Invalid otherwise.
C19_SchemeStatus ==
    CardPartsBuilt =>
        \E entries \in {ParseCardEfFiles(data).entries} :
            \E failed \in {ChainCheckFailed(entries)} :
                \A i \in 2..Len(CARD_PART_DEFS) :
                    /\ parts[i].name = CARD_PART_DEFS[i][1]
                    /\ \E status \in {SchemeStatus(FileEntries(entries, CARD_PART_DEFS[i][2]),
                                                   CARD_PART_DEFS[i])} :
                           parts[i].status =
                               IF CARD_PART_DEFS[i][2] \in ChainParts /\ failed
                                  /\ status = "valid"
                               THEN "invalid" ELSE status

\* C19 as stated: the status of every part follows from its schemes alone
C19_SchemeStatusAlone ==
    CardPartsBuilt =>
        \E entries \in {ParseCardEfFiles(data).entries} :
            \A i \in 2..Len(CARD_PART_DEFS) :
                parts[i].status =
                    SchemeStatus(FileEntries(entries, CARD_PART_DEFS[i][2]),
                                 CARD_PART_DEFS[i])

\* C19 witness: a card with a part Valid through its Gen2 scheme while its
\* Gen1 scheme has an entry and is not valid, a part Invalid and a part
\* Missing
C19_ValidInvalidMissing ==
    /\ CardPartsBuilt
    /\ PartStatus("IC identification") = "valid"
    /\ \E entries \in {FileEntries(ParseCardEfFiles(data).entries, 5)} :
           /\ ~SchemeValid(entries, FALSE, <<"min", 1>>, "gen1")
           /\ SchemeHasEntry(entries, "gen1")
    /\ PartStatus("Events") = "invalid"
    /\ PartStatus("Faults") = "missing"

\* The offset after the last entry of the walk, 0 if there is none
EntriesEnd(entries) ==
    IF entries = << >> THEN 0
    ELSE entries[Len(entries)].offset + 5 + entries[Len(entries)].length

\* C20: the entries returned by the EF walker are wholly contained in the
\* input, contiguous from offset 0 and in file order; the walk stops at the
\* first entry whose declared length runs past the end (or where fewer than 5
\* bytes remain); and the "File structure" part is Valid iff the entries tile
\* the input exactly, Invalid otherwise.
C20_EntriesTileInput ==
    CardPartsBuilt =>
        \E entries \in {ParseCardEfFiles(data).entries} :
            /\ \A k \in 1..Len(entries) :
                   /\ entries[k].offset = (IF k = 1 THEN 0
                                           ELSE EntriesEnd(SubSeq(entries, 1, k - 1)))
                   /\ entries[k].offset + 5 + entries[k].length <= Len(data)
                   /\ entries[k].file_id = U16BE(data, entries[k].offset)
                   /\ entries[k].appendix = At(data, entries[k].offset + 2)
                   /\ entries[k].length = U16BE(data, entries[k].offset + 3)
                   /\ entries[k].data = Slice(data, entries[k].offset + 5,
                                              entries[k].offset + 5 + entries[k].length)
            /\ \/ Len(data) - EntriesEnd(entries) < 5
               \/ EntriesEnd(entries) + 5 + U16BE(data, EntriesEnd(entries) + 3) > Len(data)
            /\ PartStatus("File structure") =
                   (IF EntriesEnd(entries) = Len(data) THEN "valid" ELSE "invalid")

\* C20 witness: a card whose walk returned two or more entries and stopped at
\* an entry running past the end, with "File structure" Invalid
C20_TruncatedAfterEntries ==
    /\ CardPartsBuilt
    /\ Len(ParseCardEfFiles(data).entries) >= 2
    /\ ParseCardEfFiles(data).truncated
    /\ PartStatus("File structure") = "invalid"

\* The file ids named by the "Unknown EF file IDs" item of a structure note
ListedUnknownIds(note) ==
    UNION {note[k][2] : k \in {j \in 1..Len(note) : Len(note[j]) = 2}}

\* The bytes of the file without the walked entries of unknown file id
WithoutUnknown(d, entries) ==
    LET keep == [k \in 1..Len(entries) |->
                    IF entries[k].file_id \in KnownCardIds
                    THEN Slice(d, entries[k].offset,
                               entries[k].offset + 5 + entries[k].length)
                    ELSE << >>]
    IN  Flatten(keep) \o Slice(d, EntriesEnd(entries), Len(d))

\* C21: for every card image, every walked EF entry whose file id is not a
\* known card file id, whatever its appendix, is listed in the note of the
\* "File structure" part, and every part has the status it has for the same
\* image without the entries of unknown file id.
C21_UnknownIdsListed ==
    CardPartsBuilt =>
        \E entries \in {ParseCardEfFiles(data).entries} :
            /\ \A k \in 1..Len(entries) :
                   entries[k].file_id \notin KnownCardIds =>
                       entries[k].file_id \in ListedUnknownIds(parts[1].note)
            /\ \E clean \in {ValidateDriverCardParts(WithoutUnknown(data, entries), rsa)} :
                   \A i \in 1..Len(parts) : parts[i].status = clean[i].status

\* The record arrays of a segment in order, as the triple headers delimit
\* them: from offset off, up to the first array that does not fit
RECURSIVE SegmentArrays(_, _)
SegmentArrays(seg, off) ==
    IF Len(seg) - off < 5 \/ ~DecoderTriple(seg, off).fits THEN << >>
    ELSE <<DecoderTriple(seg, off)>> \o SegmentArrays(seg, DecoderTriple(seg, off).next)

\* The first Overview segment of the file, << >> if there is none
FirstOverviewSegment ==
    LET offsets == IterTrepOffsets(data)
        hits == {i \in 1..Len(offsets) : offsets[i][2] = 33}
    IN  IF hits = {} THEN << >>
        ELSE SliceSegment(data, offsets, CHOOSE i \in hits : \A j \in hits : i <= j)

\* The VIN arrays (record type 0x0A, count > 0) among the arrays given
VinArrays(arrays) ==
    SelectSeq(arrays, LAMBDA t : t.record_type = 10 /\ t.record_count > 0)

\* C22: for every non-empty VU file, a record that cannot be decoded inside
\* an Overview, Activities or Events-and-faults segment is skipped: no
\* exception leaves the Overview, Activities or Events-and-faults decoder,
\* and the decoder goes on with the following records, so that the VIN of
\* the overview is that of the last VIN array of the first Overview segment
\* whatever records precede it.
C22_UndecodableRecordSkipped ==
    [][(pc \in {"parse_overview", "parse_activities", "parse_events_faults"}
        /\ header.detected_type = "vehicle_unit") =>
           /\ result' \in {"running", "summary"}
           /\ (pc = "parse_overview" /\ FirstOverviewSegment # << >>) =>
                  \E vins \in {VinArrays(SegmentArrays(FirstOverviewSegment, 2))} :
                      /\ overview' # NoneVal
                      /\ vins # << >> =>
                             overview'[1].vin =
                                 <<Strip(Slice(vins[Len(vins)].record_data, 0,
                                               vins[Len(vins)].record_size))>>]_vars

VuPartsReported == parts # << >> /\ header.detected_type = "vehicle_unit"

\* The walker loop of _validate_parts run to its end from offset off
RECURSIVE WalkFrom(_, _, _)
WalkFrom(d, off, st) ==
    IF Len(d) - off <= 0 THEN st
    ELSE Apply(LAMBDA it : IF it.stop THEN it.stats ELSE WalkFrom(d, it.off, it.stats),
               WalkIteration(d, off, st))

\* The bytes of the file without the segments of unknown TREP: each runs
\* from its SID to the start of the next dispatched segment, or to the end
\* of the file where the walk ended on it
WithoutUnknownTreps(d, w) ==
    Flatten([k \in 1..Len(w) |->
                IF w[k].trep \in VALID_TREPS
                THEN Slice(d, w[k].off, IF k < Len(w) THEN w[k + 1].off ELSE Len(d))
                ELSE << >>])

\* C23: for every VU file in which the walker reads a segment start 0x76
\* followed by a TREP outside the known set, the unknown TREP is recorded in
\* the note of the "Overview" part, and every other part has the status it
\* has for the same file without the segments of unknown TREP.
C23_UnknownTrepNoted ==
    VuPartsReported =>
        /\ \A k \in 1..Len(walked) :
               walked[k].trep \notin VALID_TREPS =>
                   Contains(parts[1].note, <<"Unknown TREP 0x%02X", walked[k].trep>>)
        /\ (\E k \in 1..Len(walked) : walked[k].trep \notin VALID_TREPS) =>
               \E clean \in {BuildParts(WalkFrom(WithoutUnknownTreps(data, walked), 0,
                                                 InitialStats))} :
                   \A i \in 2..Len(parts) : parts[i].status = clean[i].status

\* The last call on the reader was op
LastCall(op) == last_call # NoneVal /\ last_call[1].op = op

\* A read of n >= 0 bytes at offset before has succeeded: it returned
\* data[before : before + n] whole and the offset is before + n
ReadSucceeded(c, got) ==
    /\ c.exc = "none"
    /\ c.before + c.arg <= Len(reader.data)
    /\ Len(got) = c.arg
    /\ \A i \in 1..c.arg : got[i] = reader.data[c.before + i]
    /\ reader.offset = c.before + c.arg

\* The read ran past the end of the data, failed, and left the offset alone
ReadFailed(c) ==
    /\ c.exc = "ValueError"
    /\ c.before + c.arg > Len(reader.data)
    /\ reader.offset = c.before

\* C24: for any ByteReader and any sequence of seek, skip, peek and read
\* calls, 0 <= offset <= len(data) always; a read of n bytes (read_bytes, or a
\* read_u8 .. read_u32 of n = 1 .. 4 bytes) either succeeds, returning exactly
\* data[offset : offset + n] and advancing the offset by exactly n, or, when
\* offset + n exceeds the length, fails and leaves the offset unchanged; peek
\* never changes the offset.
C24_ReaderWithinData ==
    /\ 0 <= reader.offset /\ reader.offset <= Len(reader.data)
    /\ (LastCall("read_bytes") /\ last_call[1].arg >= 0) =>
           \/ ReadSucceeded(last_call[1], last_call[1].val)
           \/ ReadFailed(last_call[1])
    /\ LastCall("read_int") =>
           \/ ReadSucceeded(last_call[1],
                            IF last_call[1].endian = "big" THEN last_call[1].val
                            ELSE Reversed(last_call[1].val))
           \/ ReadFailed(last_call[1])
    /\ LastCall("peek_bytes") => reader.offset = last_call[1].before

\* C24 witness: after earlier calls moved the offset off 0, a read of more
\* bytes than remain has failed with the offset where it was
C24_ReadPastEndFailed ==
    /\ LastCall("read_bytes")
    /\ last_call[1].before > 0
    /\ last_call[1].arg > 0
    /\ last_call[1].arg <= Len(reader.data)
    /\ last_call[1].exc = "ValueError"
    /\ reader.offset = last_call[1].before

\* The offsets from pos on where 0x76 is followed by a valid TREP
PartStartsFrom(pos) ==
    {p \in pos..(Len(data) - 2) :
        At(data, p) = TRANSFER_DATA_POSITIVE_RESPONSE_SID /\ At(data, p + 1) \in VALID_TREPS}

\* The segment w validated successfully and a byte other than 0x76 follows it
FollowedByStrayByte(w) ==
    /\ w.structure_ok
    /\ w.end < Len(data)
    /\ At(data, w.end) # TRANSFER_DATA_POSITIVE_RESPONSE_SID

IsMissingSidNote(note) == note # << >> /\ note[1] = "Missing SID at offset %d"

\* C26: for every file classified as vehicle_unit, the byte the walker reads
\* as SID at the top of each loop iteration (two or more bytes remaining) is
\* 0x76, no "Missing SID" note is recorded against the Overview part, and no
\* part's invalid counter exceeds its count.
C26_SidAlwaysRead ==
    (header # NoneVal /\ header.detected_type = "vehicle_unit") =>
        /\ (pc = "walk" /\ Len(data) - offset >= 2) =>
               At(data, offset) = TRANSFER_DATA_POSITIVE_RESPONSE_SID
        /\ \A k \in 1..Len(stats["Overview"].notes) :
               ~IsMissingSidNote(stats["Overview"].notes[k])
        /\ \A name \in PartNameSet : stats[name].invalid <= stats[name].count

\* C26 witness: the walk is at the top of an iteration after a rejected
\* segment and a resync over stray bytes, with a part counted wholly invalid
C26_IterationAfterResync ==
    /\ pc = "walk"
    /\ Len(data) - offset >= 2
    /\ walked # << >>
    /\ ~walked[Len(walked)].ok
    /\ offset > walked[Len(walked)].end
    /\ At(data, walked[Len(walked)].end) # TRANSFER_DATA_POSITIVE_RESPONSE_SID
    /\ \E name \in PartNameSet : stats[name].invalid = stats[name].count /\ stats[name].count > 0

\* The walker dispatched a segment whose TREP belongs to the part
SegmentDispatchedFor(name) ==
    \E k \in 1..Len(walked) : PartNameOfTrep(walked[k].trep) = name

\* C27: for every VU file and every non-proxy part, the part is reported
\* Missing iff the walker dispatched no segment whose TREP belongs to that
\* part; in particular the Overview part is never Valid when the file
\* contains no Overview segment.
C27_MissingIffNoSegment ==
    VuPartsReported =>
        \A i \in 1..Len(PART_NAMES) :
            PartStatName(PART_NAMES[i]) = PART_NAMES[i] =>
                /\ parts[i].name = PART_NAMES[i]
                /\ parts[i].status = "missing" <=> ~SegmentDispatchedFor(PART_NAMES[i])

\* C28: for every VU file, the segment starts used by the record decoders
\* (the positions found by _iter_trep_offsets, where 0x76 is followed by a
\* known TREP) are exactly the offsets at which the structural walker read a
\* segment's SID and known TREP.
C28_DecodersSeeWalkedSegments ==
    VuPartsReported =>
        \E offsets \in {IterTrepOffsets(data)} :
            {offsets[i][1] : i \in 1..Len(offsets)}
                = {walked[k].off : k \in {j \in 1..Len(walked) :
                                              walked[j].trep \in VALID_TREPS}}

\* The chain verification succeeds on the two certificates: both hold at
\* least 194 bytes, the CA certificate verifies under the European root key
\* and the card certificate under the member-state key
ChainVerifies(ca_data, card_data) ==
    /\ Len(ca_data) >= CARD_CERT_LEN
    /\ Len(card_data) >= CARD_CERT_LEN
    /\ Slice(ca_data, 0, CERT_SIGNED_LEN) \in rsa.ca
    /\ Slice(card_data, 0, CERT_SIGNED_LEN) \in rsa.card

\* C29 (amended): for every driver card file, the "Card certificate" part is
\* Valid iff the first Gen1 data entry of the card certificate holds at least
\* 194 bytes and, where the file also holds Gen1 CA certificate data, the
\* certificate chain verification succeeded; without Gen1 CA certificate
\* data the part is reported on its length alone.
C29_CardCertificateValid ==
    CardPartsBuilt =>
        \E entries \in {ParseCardEfFiles(data).entries} :
            \E ca_data \in {FirstGen1Data(entries, 49416)} :
                \E card_data \in {FirstGen1Data(entries, 49408)} :
                    PartStatus("Card certificate") = "valid" <=>
                        /\ Len(card_data) >= CARD_CERT_LEN
                        /\ ca_data # << >> => ChainVerifies(ca_data, card_data)

\* C29 as stated: the "Card certificate" part is Valid only if the chain
\* verification ran and succeeded
C29_ValidOnlyIfChainVerified ==
    (CardPartsBuilt /\ PartStatus("Card certificate") = "valid") =>
        \E entries \in {ParseCardEfFiles(data).entries} :
            /\ FirstGen1Data(entries, 49416) # << >>
            /\ FirstGen1Data(entries, 49408) # << >>
            /\ ChainVerifies(FirstGen1Data(entries, 49416), FirstGen1Data(entries, 49408))

\* C29 witness: a card whose "Card certificate" part is Valid after the chain
\* verification ran on both certificates and succeeded
C29_ValidAfterChainVerified ==
    /\ CardPartsBuilt
    /\ PartStatus("Card certificate") = "valid"
    /\ PartStatus("CA certificate") = "valid"
    /\ \E entries \in {ParseCardEfFiles(data).entries} :
           ChainVerifies(FirstGen1Data(entries, 49416), FirstGen1Data(entries, 49408))

\* ------------------------------------------------------------------------
\* C30.  For every driver-card event, fault, vehicle-used and
\* specific-condition record emitted, each time field is consistent: its ISO
\* text is None whenever its raw value is None.
\* ------------------------------------------------------------------------

\* The time fields of the records of the card summary
CardRecordTimes(summary) ==
    UNION {{summary.events[k].begin_time, summary.events[k].end_time}
              : k \in 1..Len(summary.events)}
    \cup UNION {{summary.faults[k].begin_time, summary.faults[k].end_time}
                   : k \in 1..Len(summary.faults)}
    \cup UNION {{summary.vehicles_used[k].first_use, summary.vehicles_used[k].last_use}
                   : k \in 1..Len(summary.vehicles_used)}
    \cup {summary.specific_conditions[k].time : k \in 1..Len(summary.specific_conditions)}

\* C30: once the card summary is decoded, no time field of an emitted event,
\* fault, vehicle-used or specific-condition record has an ISO text without a
\* raw value
C30_IsoAbsentWhenRawAbsent ==
    driver_card # NoneVal
        => \A t \in CardRecordTimes(driver_card[1]) :
               t.raw = NoneVal => t.iso = NoneVal

====
